---- MODULE Spec2Model ----
(***************************************************************************)
(* Model of the MEDIFLOW inventory alert and reorder engine:               *)
(*   - utils/reorderPoint (calculateAverageDailyUsage,                     *)
(*     calculateReorderPoint, isLowStock, getStockStatus,                  *)
(*     calculateReorderQuantity), and                                      *)
(*   - AlertsView (fetchAllBranches, generateBranchAlerts and its sort,    *)
(*     getUniqueLocations and the counts of the multi-branch render).      *)
(*                                                                         *)
(* Time.  A JavaScript Date is a number of milliseconds; the model counts  *)
(* it in ticks, TicksPerDay ticks to the day (MsPerDay in the source is    *)
(* 1000*60*60*24).  A date string "YYYY-MM-DD" of an <input type="date">   *)
(* parses to UTC midnight of that day, i.e. tick day * TicksPerDay; a      *)
(* string that does not parse gives an Invalid Date whose getTime() is     *)
(* NaN.  Calendar days are numbered by integers; day 0 is the day the      *)
(* model's clock starts in.                                                *)
(*                                                                         *)
(* Numbers.  A JavaScript number is modelled as an exact rational n/d      *)
(* (d > 0) or NaN: [nan, n, d].  Comparisons with NaN are false and        *)
(* arithmetic on NaN gives NaN, as in IEEE 754.  Rounding of binary        *)
(* floating point is not modelled: products and sums are exact.            *)
(***************************************************************************)
EXTENDS Integers, Sequences, FiniteSets, TLC

(***************************************************************************)
(* Bounds of the model.                                                    *)
(***************************************************************************)
TicksPerDay == 2
MaxClock == 2
MaxBatches == 2

(***************************************************************************)
(* JavaScript numbers.                                                     *)
(***************************************************************************)
NaN == [nan |-> TRUE, n |-> 0, d |-> 1]
Rat(n, d) == [nan |-> FALSE, n |-> n, d |-> d]
Int2Num(i) == Rat(i, 1)

JsLt(a, b) == ~a.nan /\ ~b.nan /\ a.n * b.d < b.n * a.d
JsLe(a, b) == ~a.nan /\ ~b.nan /\ a.n * b.d <= b.n * a.d
JsGt(a, b) == JsLt(b, a)
JsGe(a, b) == JsLe(b, a)
JsEq(a, b) == ~a.nan /\ ~b.nan /\ a.n * b.d = b.n * a.d

JsAdd(a, b) ==
    IF a.nan \/ b.nan THEN NaN ELSE Rat(a.n * b.d + b.n * a.d, a.d * b.d)
JsSub(a, b) ==
    IF a.nan \/ b.nan THEN NaN ELSE Rat(a.n * b.d - b.n * a.d, a.d * b.d)
JsMul(a, b) ==
    IF a.nan \/ b.nan THEN NaN ELSE Rat(a.n * b.n, a.d * b.d)
\* a / b for b > 0 or b NaN (the only divisions the code performs on these paths)
JsDiv(a, b) ==
    IF a.nan \/ b.nan THEN NaN ELSE Rat(a.n * b.d, a.d * b.n)
\* Math.floor, Math.ceil: \div rounds toward minus infinity for a positive divisor
MathFloor(a) == IF a.nan THEN NaN ELSE Int2Num(a.n \div a.d)
MathCeil(a) == IF a.nan THEN NaN ELSE Int2Num(-((-a.n) \div a.d))
\* Math.max: NaN if either argument is NaN
MathMax(a, b) == IF a.nan \/ b.nan THEN NaN ELSE IF JsLt(a, b) THEN b ELSE a

(***************************************************************************)
(* Dates.                                                                  *)
(***************************************************************************)
DateOf(day) == [valid |-> TRUE, day |-> day]
InvalidDate == [valid |-> FALSE, day |-> 0]
\* new Date(str).getTime(), in ticks
getTime(date) == IF date.valid THEN Int2Num(date.day * TicksPerDay) ELSE NaN
\* the 1000 * 60 * 60 * 24 of the source, in ticks
MsPerDay == Int2Num(TicksPerDay)
\* the calendar day (UTC) an instant falls in
DayOf(tick) == tick \div TicksPerDay

(***************************************************************************)
(* utils/reorderPoint                                                      *)
(***************************************************************************)
DEFAULT_REORDER_CONFIG ==
    [leadTimeDays |-> 14, safetyStockPercentage |-> Rat(3, 10), minimumThreshold |-> 20]

\* the optional argument daysSinceReceived
Undefined == [given |-> FALSE, v |-> 0]
Given(v) == [given |-> TRUE, v |-> v]

\* calculateAverageDailyUsage without the early return for nothing dispensed
calculateAverageDailyUsageNoZeroReturn(batch, daysSinceReceived, today) ==
    LET totalDispensed == batch.quantityDispensed
        days == IF daysSinceReceived.given /\ daysSinceReceived.v # 0
                THEN Int2Num(daysSinceReceived.v)
                ELSE MathFloor(JsDiv(JsSub(Int2Num(today), getTime(batch.dateReceived)),
                                     MsPerDay))
    IN  IF JsLe(days, Int2Num(0)) THEN Int2Num(0)
        ELSE JsDiv(Int2Num(totalDispensed), days)

\* calculateAverageDailyUsage that counts the day of receipt as one day of usage
calculateAverageDailyUsageAtLeastOneDay(batch, daysSinceReceived, today) ==
    LET totalDispensed == batch.quantityDispensed
        days == IF daysSinceReceived.given /\ daysSinceReceived.v # 0
                THEN Int2Num(daysSinceReceived.v)
                ELSE MathFloor(JsDiv(JsSub(Int2Num(today), getTime(batch.dateReceived)),
                                     MsPerDay))
    IN  IF totalDispensed = 0 THEN Int2Num(0)
        ELSE IF JsLe(days, Int2Num(0)) THEN Int2Num(totalDispensed)
        ELSE JsDiv(Int2Num(totalDispensed), days)

\* today: the value of new Date() inside the function, in ticks
calculateAverageDailyUsage(batch, daysSinceReceived, today) ==
    LET totalDispensed == batch.quantityDispensed
        \* daysSinceReceived || Math.floor(...): undefined and 0 are falsy
        days == IF daysSinceReceived.given /\ daysSinceReceived.v # 0
                THEN Int2Num(daysSinceReceived.v)
                ELSE MathFloor(JsDiv(JsSub(Int2Num(today), getTime(batch.dateReceived)),
                                     MsPerDay))
    IN  IF totalDispensed = 0 THEN Int2Num(0)
        ELSE IF JsLe(days, Int2Num(0)) THEN Int2Num(0)
        ELSE JsDiv(Int2Num(totalDispensed), days)

\* calculateReorderPoint without the final Math.max
calculateReorderPointNoFloor(batch, config, today) ==
    LET avgDailyUsage == calculateAverageDailyUsage(batch, Undefined, today)
        baseReorderPoint == JsMul(avgDailyUsage, Int2Num(config.leadTimeDays))
        safetyStock == JsMul(baseReorderPoint, config.safetyStockPercentage)
    IN  IF JsEq(avgDailyUsage, Int2Num(0)) THEN Int2Num(config.minimumThreshold)
        ELSE MathCeil(JsAdd(baseReorderPoint, safetyStock))

\* calculateReorderPoint with the safety stock taken off the base
calculateReorderPointMinusSafety(batch, config, today) ==
    LET avgDailyUsage == calculateAverageDailyUsage(batch, Undefined, today)
        baseReorderPoint == JsMul(avgDailyUsage, Int2Num(config.leadTimeDays))
        safetyStock == JsMul(baseReorderPoint, config.safetyStockPercentage)
        calculatedReorderPoint == MathCeil(JsSub(baseReorderPoint, safetyStock))
    IN  IF JsEq(avgDailyUsage, Int2Num(0)) THEN Int2Num(config.minimumThreshold)
        ELSE MathMax(calculatedReorderPoint, Int2Num(config.minimumThreshold))

calculateReorderPoint(batch, config, today) ==
    LET avgDailyUsage == calculateAverageDailyUsage(batch, Undefined, today)
        baseReorderPoint == JsMul(avgDailyUsage, Int2Num(config.leadTimeDays))
        safetyStock == JsMul(baseReorderPoint, config.safetyStockPercentage)
        calculatedReorderPoint == MathCeil(JsAdd(baseReorderPoint, safetyStock))
    IN  IF JsEq(avgDailyUsage, Int2Num(0)) THEN Int2Num(config.minimumThreshold)
        ELSE MathMax(calculatedReorderPoint, Int2Num(config.minimumThreshold))

StockOnHand(batch) ==
    batch.beginningInventory + batch.quantityReceived - batch.quantityDispensed

\* isLowStock without the early return for currentStock <= 0
isLowStockNoGuard(batch, config, today) ==
    JsLe(Int2Num(StockOnHand(batch)), calculateReorderPoint(batch, config, today))

isLowStock(batch, config, today) ==
    LET currentStock == StockOnHand(batch)
    IN  IF currentStock <= 0 THEN FALSE
        ELSE JsLe(Int2Num(currentStock), calculateReorderPoint(batch, config, today))

\* getStockStatus whose isLowStock does not ask for currentStock > 0
getStockStatusLowAtZero(batch, config, today) ==
    LET currentStock == StockOnHand(batch)
        reorderPoint == calculateReorderPoint(batch, config, today)
        avgDailyUsage == calculateAverageDailyUsage(batch, Undefined, today)
        daysOfStockRemaining ==
            IF JsGt(avgDailyUsage, Int2Num(0))
            THEN MathFloor(JsDiv(Int2Num(currentStock), avgDailyUsage))
            ELSE IF currentStock > 0 THEN Int2Num(999) ELSE Int2Num(0)
    IN  [currentStock |-> currentStock,
         reorderPoint |-> reorderPoint,
         isLowStock |-> JsLe(Int2Num(currentStock), reorderPoint),
         isOutOfStock |-> currentStock = 0,
         avgDailyUsage |-> avgDailyUsage,
         daysOfStockRemaining |-> daysOfStockRemaining]

\* getStockStatus that reports 999 days of stock whenever there is no usage
getStockStatusSentinelAlways(batch, config, today) ==
    LET currentStock == StockOnHand(batch)
        reorderPoint == calculateReorderPoint(batch, config, today)
        avgDailyUsage == calculateAverageDailyUsage(batch, Undefined, today)
        daysOfStockRemaining ==
            IF JsGt(avgDailyUsage, Int2Num(0))
            THEN MathFloor(JsDiv(Int2Num(currentStock), avgDailyUsage))
            ELSE Int2Num(999)
    IN  [currentStock |-> currentStock,
         reorderPoint |-> reorderPoint,
         isLowStock |-> currentStock > 0 /\ JsLe(Int2Num(currentStock), reorderPoint),
         isOutOfStock |-> currentStock = 0,
         avgDailyUsage |-> avgDailyUsage,
         daysOfStockRemaining |-> daysOfStockRemaining]

\* getStockStatus that calls a negative stock out of stock
getStockStatusOutAtOrBelowZero(batch, config, today) ==
    LET currentStock == StockOnHand(batch)
        reorderPoint == calculateReorderPoint(batch, config, today)
        avgDailyUsage == calculateAverageDailyUsage(batch, Undefined, today)
        daysOfStockRemaining ==
            IF JsGt(avgDailyUsage, Int2Num(0))
            THEN MathFloor(JsDiv(Int2Num(currentStock), avgDailyUsage))
            ELSE IF currentStock > 0 THEN Int2Num(999) ELSE Int2Num(0)
    IN  [currentStock |-> currentStock,
         reorderPoint |-> reorderPoint,
         isLowStock |-> currentStock > 0 /\ JsLe(Int2Num(currentStock), reorderPoint),
         isOutOfStock |-> currentStock <= 0,
         avgDailyUsage |-> avgDailyUsage,
         daysOfStockRemaining |-> daysOfStockRemaining]

getStockStatus(batch, config, today) ==
    LET currentStock == StockOnHand(batch)
        reorderPoint == calculateReorderPoint(batch, config, today)
        avgDailyUsage == calculateAverageDailyUsage(batch, Undefined, today)
        daysOfStockRemaining ==
            IF JsGt(avgDailyUsage, Int2Num(0))
            THEN MathFloor(JsDiv(Int2Num(currentStock), avgDailyUsage))
            ELSE IF currentStock > 0 THEN Int2Num(999) ELSE Int2Num(0)
    IN  [currentStock |-> currentStock,
         reorderPoint |-> reorderPoint,
         isLowStock |-> currentStock > 0 /\ JsLe(Int2Num(currentStock), reorderPoint),
         isOutOfStock |-> currentStock = 0,
         avgDailyUsage |-> avgDailyUsage,
         daysOfStockRemaining |-> daysOfStockRemaining]

\* calculateReorderQuantity without the usage of 1 for a batch with no usage history
calculateReorderQuantityNoFallback(batch, config, today) ==
    LET status == getStockStatus(batch, config, today)
        avgDailyUsage == status.avgDailyUsage
        orderQuantity ==
            MathCeil(JsAdd(JsMul(JsMul(avgDailyUsage, Int2Num(config.leadTimeDays)),
                                 Int2Num(2)),
                           JsMul(JsMul(avgDailyUsage, Int2Num(config.leadTimeDays)),
                                 config.safetyStockPercentage)))
    IN  IF ~status.isLowStock /\ ~status.isOutOfStock THEN Int2Num(0)
        ELSE MathMax(orderQuantity, Int2Num(config.minimumThreshold))

calculateReorderQuantity(batch, config, today) ==
    LET status == getStockStatus(batch, config, today)
        avgDailyUsage == IF JsGt(status.avgDailyUsage, Int2Num(0))
                         THEN status.avgDailyUsage ELSE Int2Num(1)
        orderQuantity ==
            MathCeil(JsAdd(JsMul(JsMul(avgDailyUsage, Int2Num(config.leadTimeDays)),
                                 Int2Num(2)),
                           JsMul(JsMul(avgDailyUsage, Int2Num(config.leadTimeDays)),
                                 config.safetyStockPercentage)))
    IN  IF ~status.isLowStock /\ ~status.isOutOfStock THEN Int2Num(0)
        ELSE MathMax(orderQuantity, Int2Num(config.minimumThreshold))

(***************************************************************************)
(* AlertsView: generateBranchAlerts                                        *)
(***************************************************************************)
severityOrder(severity) ==
    CASE severity = "high" -> 0
      [] severity = "medium" -> 1
      [] severity = "low" -> 2

typeOrder(alertType) ==
    CASE alertType = "expired" -> 0
      [] alertType = "critical" -> 1
      [] alertType = "lowStock" -> 2
      [] alertType = "nearExpiry" -> 3

\* a comparator that stops at the severity
compareAlertsSeverityOnly(a, b) ==
    severityOrder(a.severity) - severityOrder(b.severity)

\* the comparator handed to alerts.sort
compareAlerts(a, b) ==
    IF severityOrder(a.severity) # severityOrder(b.severity)
    THEN severityOrder(a.severity) - severityOrder(b.severity)
    ELSE typeOrder(a.alertType) - typeOrder(b.alertType)

\* Array.prototype.sort is stable (ECMAScript 2019): an element goes before the
\* first element of the sorted prefix that compares greater than it.
RECURSIVE InsertAlert(_, _)
InsertAlert(sorted, a) ==
    IF sorted = <<>> THEN <<a>>
    ELSE IF compareAlerts(Head(sorted), a) > 0 THEN <<a>> \o sorted
    ELSE <<Head(sorted)>> \o InsertAlert(Tail(sorted), a)

RECURSIVE SortAlerts(_)
SortAlerts(alerts) ==
    IF alerts = <<>> THEN <<>>
    ELSE InsertAlert(SortAlerts(SubSeq(alerts, 1, Len(alerts) - 1)), alerts[Len(alerts)])

\* daysUntilExpiry with 0 in place of NaN
DaysUntilExpiryOrZero(item, now) ==
    IF item.expirationDate.valid
    THEN MathFloor(JsDiv(JsSub(getTime(item.expirationDate), Int2Num(now)), MsPerDay))
    ELSE Int2Num(0)

\* const daysUntilExpiry = Math.floor((expiryDate.getTime() - now.getTime()) / MsPerDay)
DaysUntilExpiry(item, now) ==
    MathFloor(JsDiv(JsSub(getTime(item.expirationDate), Int2Num(now)), MsPerDay))

ExpiryAlert(branch, item, alertType, severity, daysUntilExpiry) ==
    [branchId |-> branch.userId, branchName |-> branch.branchName,
     userName |-> branch.userName, item |-> item,
     alertType |-> alertType, severity |-> severity,
     daysUntilExpiry |-> daysUntilExpiry.n, stockLevel |-> StockOnHand(item)]

\* the chain with the expired bucket given the severity of the nearExpiry bucket
ExpiryAlertsExpiredMedium(branch, item, now) ==
    LET daysUntilExpiry == DaysUntilExpiry(item, now)
    IN  IF JsLt(daysUntilExpiry, Int2Num(0))
        THEN <<ExpiryAlert(branch, item, "expired", "medium", daysUntilExpiry)>>
        ELSE IF JsLe(daysUntilExpiry, Int2Num(30)) /\ JsGe(daysUntilExpiry, Int2Num(0))
        THEN <<ExpiryAlert(branch, item, "critical", "high", daysUntilExpiry)>>
        ELSE IF JsGt(daysUntilExpiry, Int2Num(30)) /\ JsLe(daysUntilExpiry, Int2Num(180))
        THEN <<ExpiryAlert(branch, item, "nearExpiry", "medium", daysUntilExpiry)>>
        ELSE <<>>

\* the chain with the critical bucket closed one day early
ExpiryAlertsCriticalBelow30(branch, item, now) ==
    LET daysUntilExpiry == DaysUntilExpiry(item, now)
    IN  IF JsLt(daysUntilExpiry, Int2Num(0))
        THEN <<ExpiryAlert(branch, item, "expired", "high", daysUntilExpiry)>>
        ELSE IF JsLt(daysUntilExpiry, Int2Num(30)) /\ JsGe(daysUntilExpiry, Int2Num(0))
        THEN <<ExpiryAlert(branch, item, "critical", "high", daysUntilExpiry)>>
        ELSE IF JsGt(daysUntilExpiry, Int2Num(30)) /\ JsLe(daysUntilExpiry, Int2Num(180))
        THEN <<ExpiryAlert(branch, item, "nearExpiry", "medium", daysUntilExpiry)>>
        ELSE <<>>

\* the if / else if / else if chain on daysUntilExpiry
ExpiryAlerts(branch, item, now) ==
    LET daysUntilExpiry == DaysUntilExpiry(item, now)
    IN  IF JsLt(daysUntilExpiry, Int2Num(0))
        THEN <<ExpiryAlert(branch, item, "expired", "high", daysUntilExpiry)>>
        ELSE IF JsLe(daysUntilExpiry, Int2Num(30)) /\ JsGe(daysUntilExpiry, Int2Num(0))
        THEN <<ExpiryAlert(branch, item, "critical", "high", daysUntilExpiry)>>
        ELSE IF JsGt(daysUntilExpiry, Int2Num(30)) /\ JsLe(daysUntilExpiry, Int2Num(180))
        THEN <<ExpiryAlert(branch, item, "nearExpiry", "medium", daysUntilExpiry)>>
        ELSE <<>>

\* the block with high severity at half the reorder point too
LowStockAlertsHalfInclusive(branch, item, today) ==
    LET stockOnHand == StockOnHand(item)
        stockStatus == getStockStatus(item, DEFAULT_REORDER_CONFIG, today)
    IN  IF stockOnHand > 0 /\ isLowStock(item, DEFAULT_REORDER_CONFIG, today)
        THEN <<[branchId |-> branch.userId, branchName |-> branch.branchName,
                userName |-> branch.userName, item |-> item,
                alertType |-> "lowStock",
                severity |-> IF JsLe(Int2Num(stockOnHand),
                                     JsMul(stockStatus.reorderPoint, Rat(1, 2)))
                             THEN "high" ELSE "medium",
                stockLevel |-> stockOnHand]>>
        ELSE <<>>

\* the "Low stock" block; today is the new Date() of isLowStock and getStockStatus
LowStockAlerts(branch, item, today) ==
    LET stockOnHand == StockOnHand(item)
        stockStatus == getStockStatus(item, DEFAULT_REORDER_CONFIG, today)
    IN  IF stockOnHand > 0 /\ isLowStock(item, DEFAULT_REORDER_CONFIG, today)
        THEN <<[branchId |-> branch.userId, branchName |-> branch.branchName,
                userName |-> branch.userName, item |-> item,
                alertType |-> "lowStock",
                severity |-> IF JsLt(Int2Num(stockOnHand),
                                     JsMul(stockStatus.reorderPoint, Rat(1, 2)))
                             THEN "high" ELSE "medium",
                stockLevel |-> stockOnHand]>>
        ELSE <<>>

\* the low stock check as one more else-if of the expiry chain
ItemAlertsExclusive(branch, item, now, today) ==
    IF ExpiryAlerts(branch, item, now) # <<>>
    THEN ExpiryAlerts(branch, item, now)
    ELSE LowStockAlerts(branch, item, today)

\* the body of branch.inventory.forEach for one item
ItemAlerts(branch, item, now, today) ==
    ExpiryAlerts(branch, item, now) \o LowStockAlerts(branch, item, today)

RECURSIVE InventoryAlerts(_, _, _, _)
InventoryAlerts(branch, inventory, now, today) ==
    IF inventory = <<>> THEN <<>>
    ELSE ItemAlerts(branch, Head(inventory), now, today)
         \o InventoryAlerts(branch, Tail(inventory), now, today)

\* the alerts array before alerts.sort
RECURSIVE PushedAlerts(_, _, _)
PushedAlerts(branchData, now, today) ==
    IF branchData = <<>> THEN <<>>
    ELSE InventoryAlerts(Head(branchData), Head(branchData).inventory, now, today)
         \o PushedAlerts(Tail(branchData), now, today)

\* the value passed to setBranchAlerts
generateBranchAlerts(branchData, now, today) ==
    SortAlerts(PushedAlerts(branchData, now, today))

(***************************************************************************)
(* AlertsView: fetchAllBranches                                            *)
(***************************************************************************)
\* String.prototype.localeCompare on the branch names of the model
LocaleRank(name) ==
    CASE name = "Cebu" -> 1
      [] name = "Manila" -> 2

localeCompare(a, b) == LocaleRank(a) - LocaleRank(b)

\* data.map(...).sort((a, b) => a.branchName.localeCompare(b.branchName)), stable
RECURSIVE InsertBranch(_, _)
InsertBranch(sorted, b) ==
    IF sorted = <<>> THEN <<b>>
    ELSE IF localeCompare(Head(sorted).branchName, b.branchName) > 0 THEN <<b>> \o sorted
    ELSE <<Head(sorted)>> \o InsertBranch(Tail(sorted), b)

RECURSIVE SortBranches(_)
SortBranches(data) ==
    IF data = <<>> THEN <<>>
    ELSE InsertBranch(SortBranches(SubSeq(data, 1, Len(data) - 1)), data[Len(data)])

(***************************************************************************)
(* AlertsView: the summaries of the multi-branch render                    *)
(***************************************************************************)
\* branchAlerts.filter(a => a.alertType === alertType)
TypeAlerts(alerts, alertType) == SelectSeq(alerts, LAMBDA a : a.alertType = alertType)

\* the keys of locationMap, in insertion order
RECURSIVE LocationNames(_)
LocationNames(branchData) ==
    IF branchData = <<>> THEN <<>>
    ELSE LET before == LocationNames(SubSeq(branchData, 1, Len(branchData) - 1))
             name == branchData[Len(branchData)].branchName
         IN  IF \E i \in 1..Len(before) : before[i] = name
             THEN before ELSE Append(before, name)

\* .sort(([nameA], [nameB]) => nameA.localeCompare(nameB)), stable
RECURSIVE InsertLocation(_, _)
InsertLocation(sorted, entry) ==
    IF sorted = <<>> THEN <<entry>>
    ELSE IF localeCompare(Head(sorted).name, entry.name) > 0 THEN <<entry>> \o sorted
    ELSE <<Head(sorted)>> \o InsertLocation(Tail(sorted), entry)

RECURSIVE SortLocations(_)
SortLocations(entries) ==
    IF entries = <<>> THEN <<>>
    ELSE InsertLocation(SortLocations(SubSeq(entries, 1, Len(entries) - 1)),
                        entries[Len(entries)])

\* getUniqueLocations that keeps the first branch of each location only
getUniqueLocationsFirstOnly(branchData) ==
    LET names == LocationNames(branchData)
    IN  SortLocations([i \in 1..Len(names) |->
            [name |-> names[i],
             branches |-> <<SelectSeq(branchData,
                                      LAMBDA b : b.branchName = names[i])[1]>>]])

\* the [locationName, locationBranches] entries of locationMap, sorted by name
getUniqueLocations(branchData) ==
    LET names == LocationNames(branchData)
    IN  SortLocations([i \in 1..Len(names) |->
            [name |-> names[i],
             branches |-> SelectSeq(branchData, LAMBDA b : b.branchName = names[i])]])

\* branchExpired, branchCritical, branchNearExpiry, branchLowStock of a branch card
BranchTypeCount(alerts, branch, alertType) ==
    Len(SelectSeq(alerts,
                  LAMBDA a : a.branchId = branch.userId /\ a.alertType = alertType))

\* locationExpiredAlerts, locationCriticalAlerts, locationNearExpiryAlerts,
\* locationLowStockAlerts of a location
LocationTypeAlerts(alerts, locationBranches, alertType) ==
    SelectSeq(TypeAlerts(alerts, alertType),
              LAMBDA alert : \E i \in 1..Len(locationBranches) :
                                 locationBranches[i].userId = alert.branchId)

(***************************************************************************)
(* Inputs.                                                                 *)
(***************************************************************************)
Batch(id, stock, dateReceived, expirationDate) ==
    [id |-> id,
     beginningInventory |-> stock[1],
     quantityReceived |-> stock[2],
     quantityDispensed |-> stock[3],
     dateReceived |-> dateReceived,
     expirationDate |-> expirationDate]

\* receipt dates: ten days back, the day the clock starts in, the next day
\* (same-day and future-dated receipts), and a string that does not parse
ReceivedDates == {DateOf(0 - 10), DateOf(0), DateOf(1), InvalidDate}

\* expiration dates on each side of every bucket boundary for the days the
\* clock runs through, and a string that does not parse
ExpirationDates ==
    {DateOf(0), DateOf(1), DateOf(31), DateOf(181), DateOf(400), InvalidDate}

\* the batches of the single-batch specification
UnitBatches ==
    { Batch(1, <<b, r, d>>, dr, de) :
        b \in {0, 10, 20}, r \in {0, 5, 100}, d \in {0, 5, 30},
        dr \in ReceivedDates, de \in ExpirationDates }

Configs ==
    [leadTimeDays : {0 - 7, 0, 14, 30},
     safetyStockPercentage : {Rat(0, 1), Rat(3, 10), Rat(1, 1)},
     minimumThreshold : {0, 20}]

ValidConfig(config) ==
    /\ config.leadTimeDays >= 0
    /\ JsGe(config.safetyStockPercentage, Int2Num(0))
    /\ config.minimumThreshold >= 0

\* a second batch of the branch in the single-batch specification: low on stock and
\* expiring on day 0, low on stock and expiring on day 31, ample and far from expiry
Neighbours ==
    { Batch(2, <<5, 0, 0>>, DateOf(0 - 10), DateOf(0)),
      Batch(2, <<0, 15, 0>>, DateOf(0 - 10), DateOf(31)),
      Batch(2, <<100, 0, 0>>, DateOf(0 - 10), DateOf(400)) }

DaysArgs == {Undefined, Given(0 - 1), Given(0), Given(1), Given(10)}

\* the stock fields <<beginningInventory, quantityReceived, quantityDispensed>>
\* and receipt date of the batches a branch may hold: low stock below half the
\* reorder point, low stock above it, ample stock
FeedStocks ==
    { <<<<5, 0, 0>>, DateOf(0 - 10)>>,
      <<<<0, 15, 0>>, DateOf(0 - 10)>>,
      <<<<100, 0, 0>>, DateOf(0 - 10)>> }

\* expiring on day 0 (critical, then expired) and on day 31 (near expiry, then
\* critical)
FeedExpirations == {DateOf(0), DateOf(31)}

FeedItems == FeedStocks \X FeedExpirations

\* an inventory: batches with ids 1..k, unique within the branch
InventoriesOfLen(k) ==
    { [i \in 1..k |-> Batch(i, c[i][1][1], c[i][1][2], c[i][2])] :
        c \in [1..k -> FeedItems] }

Users == {"u1", "u2"}

UserBranchName(userId) == IF userId = "u1" THEN "Manila" ELSE "Cebu"

\* one element of the response of /inventory/all-branches
ResponseItem(userId, inventory) ==
    [userId |-> userId, userName |-> userId,
     branchName |-> UserBranchName(userId), value |-> inventory]

\* the responses of the server: at most one record per user, in any order,
\* with at most MaxBatches batches in all
ResponseShapes ==
    { p \in Users \X Users \X (0..MaxBatches) \X (0..MaxBatches) :
        p[1] # p[2] /\ p[3] + p[4] <= MaxBatches }

Responses ==
    {<<>>}
    \cup { <<ResponseItem(u, inv)>> :
             u \in Users, inv \in UNION { InventoriesOfLen(k) : k \in 0..MaxBatches } }
    \cup UNION { { <<ResponseItem(p[1], i1), ResponseItem(p[2], i2)>> :
                     i1 \in InventoriesOfLen(p[3]), i2 \in InventoriesOfLen(p[4]) } :
                   p \in ResponseShapes }

\* the responses of the summary specification: three accounts, two of them of one
\* location, each with an empty inventory or one batch, in three orders
SummaryItems ==
    { <<<<5, 0, 0>>, DateOf(0)>>, <<<<0, 15, 0>>, DateOf(31)>>, <<<<100, 0, 0>>, DateOf(0)>> }

SummaryInventories ==
    {<<>>} \cup { <<Batch(1, c[1], DateOf(0 - 10), c[2])>> : c \in SummaryItems }

SummaryOrders == { <<"u1", "u2", "u3">>, <<"u3", "u1", "u2">>, <<"u2", "u3", "u1">> }

SummaryResponses ==
    { [i \in 1..3 |-> ResponseItem(order[i], inv[i])] :
        order \in SummaryOrders, inv \in [1..3 -> SummaryInventories] }

(***************************************************************************)
(* State.                                                                  *)
(***************************************************************************)
VARIABLES
    clock,         \* the wall clock, in ticks: what new Date() returns
    server,        \* what GET /inventory/all-branches answers
    now,           \* const now = new Date() of the latest render of AlertsView
    effectNow,     \* now of the render whose closures the effect's timer calls
    branches,      \* useState<BranchData[]>
    branchAlerts,  \* useState<BranchAlert[]>
    gen,           \* history: the now and the clock of the run of generateBranchAlerts
                   \* that set branchAlerts, and whether it was the first run, a run
                   \* with the now and the day of the run before it ("repeat"), or
                   \* another later run ("again")
    batch,         \* the batch handed to the functions of utils/reorderPoint
    out,           \* the last call of a function on batch, and what it returned
    calls          \* the invocations of generateBranchAlerts in progress: each one's
                   \* arguments, its place in the forEach loops, its local alerts
                   \* array and the list it handed to setBranchAlerts

VARIABLES
    fetches,       \* the invocations of fetchAllBranches in the order they started:
                   \* the closure's now, the response on its way, how it ended and
                   \* its place in the order of completion
    isLoading      \* useState(false)

fetchVars == <<fetches, isLoading>>

VARIABLES
    inventory,         \* useState<InventoryBatch[]> of App
    selectedDrugName,  \* the state of DispenseMedicinesView
    selectedBatch,
    quantity,
    error,
    showConfirmation

dispenseVars == <<selectedDrugName, selectedBatch, quantity, error, showConfirmation>>

VARIABLES
    session,       \* useState<any>(null) of App
    isDataLoaded,  \* useState(false) of App
    cloud,         \* the value the server's kv store holds under the user's inventory key
    origin         \* history: where the inventory of App came from

syncVars == <<session, isDataLoaded, cloud, origin>>

VARIABLES
    accounts,      \* the users of Supabase Auth: role and approved of user_metadata
    tokens,        \* the users who hold an access token that auth.getUser accepts
    kv,            \* kv_store_c88a69d7: the value under each user's inventory key
    response       \* the last response of the server, with the role and the approved
                   \* flag that the caller's account had when it was given

serverVars == <<accounts, tokens, kv, response>>

\* the state of the parts of the program that a specification does not run
restVars == <<fetchVars, inventory, dispenseVars, syncVars, serverVars>>

vars == <<clock, server, now, effectNow, branches, branchAlerts, gen, batch, out, calls,
          restVars>>

viewVars == <<now, effectNow, branches, branchAlerts, gen>>

NoCall == [fn |-> "none"]

NoCalls == <<>>

IdleBatch == Batch(1, <<0, 0, 0>>, DateOf(0), DateOf(0))

\* no fetch in flight, the loading flag as useState(false) left it
FetchIdle ==
    /\ fetches = <<>>
    /\ isLoading = FALSE

\* null
Null == [null |-> TRUE]

\* the dispense view as its useState calls leave it
DispenseIdle ==
    /\ selectedDrugName = Null
    /\ selectedBatch = Null
    /\ quantity = 0
    /\ error = ""
    /\ showConfirmation = FALSE

\* the kv store has no row for the key (kv.get gives undefined), or holds a value
NoValue == [stored |-> FALSE, value |-> <<>>]

Stored(value) == [stored |-> TRUE, value |-> value]

\* App before a session is found, the key of the user not yet in the kv store
SyncIdle ==
    /\ session = Null
    /\ isDataLoaded = FALSE
    /\ cloud = NoValue
    /\ origin = "none"

\* the accounts of the server
AccountIds == {"admin", "u1", "u2"}

NoAccount == [exists |-> FALSE, role |-> "", approved |-> FALSE]

NoResponse == [route |-> "none", userId |-> "", status |-> 0, role |-> "", approved |-> FALSE]

\* the server after init-admin-accounts: the Administrator account, no inventory
ServerIdle ==
    /\ accounts = [u \in AccountIds |->
                     IF u = "admin"
                     THEN [exists |-> TRUE, role |-> "Administrator", approved |-> TRUE]
                     ELSE NoAccount]
    /\ tokens = {}
    /\ kv = [u \in AccountIds |-> NoValue]
    /\ response = NoResponse

RestIdle == FetchIdle /\ inventory = <<>> /\ DispenseIdle /\ SyncIdle /\ ServerIdle

(***************************************************************************)
(* The multi-branch alert view.                                            *)
(***************************************************************************)
\* the first render of the component, at any time of day 0 .. ; its effect has run
Init ==
    /\ clock \in 0..MaxClock
    /\ server \in Responses
    /\ now = clock
    /\ effectNow = clock
    /\ branches = <<>>
    /\ branchAlerts = <<>>
    /\ gen = [now |-> clock, clock |-> clock, run |-> "none"]
    /\ batch = IdleBatch
    /\ out = NoCall
    /\ calls = NoCalls
    /\ RestIdle

Tick ==
    /\ clock < MaxClock
    /\ clock' = clock + 1
    /\ UNCHANGED <<server, viewVars, batch, out, calls, restVars>>

\* const branchData = data.map(...).sort(...)
BranchDataOf(data) ==
    SortBranches([i \in 1..Len(data) |->
        [userId |-> data[i].userId, userName |-> data[i].userName,
         branchName |-> data[i].branchName, inventory |-> data[i].value]])

\* fetchAllBranches that pushes into the alerts of the run before
FetchOkAccumulate(data, closureNow) ==
    /\ branches' = BranchDataOf(data)
    /\ branchAlerts' =
         SortAlerts(branchAlerts \o PushedAlerts(BranchDataOf(data), closureNow, clock))
    /\ gen' = [now |-> closureNow, clock |-> clock,
               run |-> IF gen.run = "none" THEN "first"
                       ELSE IF closureNow = gen.now /\ DayOf(clock) = DayOf(gen.clock)
                       THEN "repeat" ELSE "again"]
    /\ now' = clock
    /\ UNCHANGED <<clock, server, effectNow, batch, out, calls, restVars>>

\* fetchAllBranches with an ok response, run from a closure whose now is closureNow:
\* setBranches, generateBranchAlerts, and the render the state updates cause
FetchOk(data, closureNow) ==
    /\ branches' = BranchDataOf(data)
    /\ branchAlerts' = generateBranchAlerts(BranchDataOf(data), closureNow, clock)
    /\ gen' = [now |-> closureNow, clock |-> clock,
               run |-> IF gen.run = "none" THEN "first"
                       ELSE IF closureNow = gen.now /\ DayOf(clock) = DayOf(gen.clock)
                       THEN "repeat" ELSE "again"]
    /\ now' = clock
    /\ UNCHANGED <<clock, server, effectNow, batch, out, calls, restVars>>

\* the initial load and the 30 second timer call the fetchAllBranches of the render
\* the effect ran in (the effect's dependencies are userToken and userRole only)
AutoRefresh == FetchOk(server, effectNow)

\* the Refresh Now button calls the fetchAllBranches of the latest render
ManualRefresh == FetchOk(server, now)

\* !response.ok or a rejected fetch: the catch block, then finally
\* setIsLoading(false), setLastRefreshTime(new Date()), and the render they cause
FetchFailed ==
    /\ now' = clock
    /\ UNCHANGED <<clock, server, effectNow, branches, branchAlerts, gen, batch, out, calls,
                   restVars>>

Next == Tick \/ AutoRefresh \/ ManualRefresh \/ FetchFailed

Spec == Init /\ [][Next]_vars

\* the alert view over accounts that share a location
InitSummary ==
    /\ clock \in 0..MaxClock
    /\ server \in SummaryResponses
    /\ now = clock
    /\ effectNow = clock
    /\ branches = <<>>
    /\ branchAlerts = <<>>
    /\ gen = [now |-> clock, clock |-> clock, run |-> "none"]
    /\ batch = IdleBatch
    /\ out = NoCall
    /\ calls = NoCalls
    /\ RestIdle

SpecSummary == InitSummary /\ [][Next]_vars

(***************************************************************************)
(* The functions of utils/reorderPoint and the alert generator, called on  *)
(* one batch.                                                              *)
(***************************************************************************)
InitUnit ==
    /\ clock \in 0..MaxClock
    /\ batch \in UnitBatches
    /\ out = NoCall
    /\ server = <<>>
    /\ now = clock
    /\ effectNow = clock
    /\ branches = <<>>
    /\ branchAlerts = <<>>
    /\ gen = [now |-> clock, clock |-> clock, run |-> "none"]
    /\ calls = NoCalls
    /\ RestIdle

UnitFrame == UNCHANGED <<clock, server, viewVars, batch, calls, restVars>>

CallCalculateAverageDailyUsage ==
    /\ out = NoCall
    /\ \E daysSinceReceived \in DaysArgs :
         out' = [fn |-> "calculateAverageDailyUsage",
                 daysSinceReceived |-> daysSinceReceived,
                 value |-> calculateAverageDailyUsage(batch, daysSinceReceived, clock)]
    /\ UnitFrame

CallCalculateReorderPoint ==
    /\ out = NoCall
    /\ \E config \in Configs :
         out' = [fn |-> "calculateReorderPoint", config |-> config,
                 value |-> calculateReorderPoint(batch, config, clock)]
    /\ UnitFrame

CallIsLowStock ==
    /\ out = NoCall
    /\ \E config \in Configs :
         out' = [fn |-> "isLowStock", config |-> config,
                 value |-> isLowStock(batch, config, clock)]
    /\ UnitFrame

CallGetStockStatus ==
    /\ out = NoCall
    /\ \E config \in Configs :
         out' = [fn |-> "getStockStatus", config |-> config,
                 value |-> getStockStatus(batch, config, clock)]
    /\ UnitFrame

CallCalculateReorderQuantity ==
    /\ out = NoCall
    /\ \E config \in Configs :
         out' = [fn |-> "calculateReorderQuantity", config |-> config,
                 value |-> calculateReorderQuantity(batch, config, clock)]
    /\ UnitFrame

\* a branch that holds the one batch
UnitBranch(item) ==
    [userId |-> "u1", userName |-> "u1", branchName |-> "Manila", inventory |-> <<item>>]

\* generateBranchAlerts from a closure rendered at closureNow, not after the clock
CallGenerateBranchAlerts ==
    /\ out = NoCall
    /\ \E closureNow \in 0..clock :
         out' = [fn |-> "generateBranchAlerts", now |-> closureNow,
                 value |-> generateBranchAlerts(<<UnitBranch(batch)>>, closureNow, clock)]
    /\ UnitFrame

\* generateBranchAlerts on a snapshot in which the branch holds the batch and a
\* second batch, before or after it
CallGenerateBranchAlertsPair ==
    /\ out = NoCall
    /\ \E closureNow \in 0..clock, neighbour \in Neighbours :
       \E items \in {<<batch, neighbour>>, <<neighbour, batch>>} :
         out' = [fn |-> "generateBranchAlertsPair", now |-> closureNow,
                 inventory |-> items,
                 value |-> generateBranchAlerts(
                               <<[UnitBranch(batch) EXCEPT !.inventory = items]>>,
                               closureNow, clock)]
    /\ UnitFrame

\* the staff-role render of AlertsView: getDaysUntilExpiry and the filters over the
\* local inventory, with the now of the render
getDaysUntilExpiry(expirationDate, renderNow) ==
    MathFloor(JsDiv(JsSub(getTime(expirationDate), Int2Num(renderNow)), MsPerDay))

StaffCategories(item, renderNow) ==
    LET days == getDaysUntilExpiry(item.expirationDate, renderNow)
    IN  [expiredItems |-> JsLt(days, Int2Num(0)),
         nearExpiry60 |-> JsGt(days, Int2Num(30)) /\ JsLe(days, Int2Num(90)),
         nearExpiry90 |-> JsGt(days, Int2Num(90)) /\ JsLe(days, Int2Num(180)),
         lowStock |-> isLowStock(item, DEFAULT_REORDER_CONFIG, renderNow)]

RenderStaffAlerts ==
    /\ out = NoCall
    /\ out' = [fn |-> "staffAlerts", now |-> clock,
               value |-> StaffCategories(batch, clock)]
    /\ UnitFrame

\* the caller takes the result
Return ==
    /\ out # NoCall
    /\ out' = NoCall
    /\ UnitFrame

NextUnit ==
    \/ CallCalculateAverageDailyUsage
    \/ CallCalculateReorderPoint
    \/ CallIsLowStock
    \/ CallGetStockStatus
    \/ CallCalculateReorderQuantity
    \/ CallGenerateBranchAlerts
    \/ CallGenerateBranchAlertsPair
    \/ RenderStaffAlerts
    \/ Return

SpecUnit == InitUnit /\ [][NextUnit]_vars

(***************************************************************************)
(* Two invocations of generateBranchAlerts, on a snapshot each, taken one  *)
(* inventory item at a time in any interleaving.                           *)
(***************************************************************************)
CallItems == { <<<<5, 0, 0>>, DateOf(0)>>, <<<<0, 15, 0>>, DateOf(31)>> }

CallInventoriesOfLen(k) ==
    { [i \in 1..k |-> Batch(i, c[i][1], DateOf(0 - 10), c[i][2])] :
        c \in [1..k -> CallItems] }

\* the snapshots of one account: its BranchData with at most MaxBatches batches
CallSnapshots(userId) ==
    { <<[userId |-> userId, userName |-> userId,
         branchName |-> UserBranchName(userId), inventory |-> items]>> :
        items \in UNION { CallInventoriesOfLen(k) : k \in 0..MaxBatches } }

\* the (branch, item) pairs in the order of the two nested forEach loops
RECURSIVE ForEachOrder(_)
ForEachOrder(branchData) ==
    IF branchData = <<>> THEN <<>>
    ELSE [k \in 1..Len(Head(branchData).inventory) |->
             [branch |-> Head(branchData), item |-> Head(branchData).inventory[k]]]
         \o ForEachOrder(Tail(branchData))

\* an invocation that has just run const alerts: BranchAlert[] = []
NewCall(branchData, closureNow) ==
    [branchData |-> branchData, now |-> closureNow, done |-> 0, alerts |-> <<>>,
     result |-> <<>>, returned |-> FALSE, interleaved |-> FALSE]

InitCalls ==
    /\ clock \in 0..MaxClock
    /\ calls \in { <<NewCall(d1, n1), NewCall(d2, n2)>> :
                      d1 \in CallSnapshots("u1"), d2 \in CallSnapshots("u2"),
                      n1 \in 0..clock, n2 \in 0..clock }
    /\ server = <<>>
    /\ now = clock
    /\ effectNow = clock
    /\ branches = <<>>
    /\ branchAlerts = <<>>
    /\ gen = [now |-> clock, clock |-> clock, run |-> "none"]
    /\ batch = IdleBatch
    /\ out = NoCall
    /\ RestIdle

CallsFrame == UNCHANGED <<clock, server, viewVars, batch, out, restVars>>

\* one alerts array for all invocations (the first one's)
ModuleAlerts(cs, p) == cs[1].alerts

\* the alerts array of invocation p: a const of the function body
LocalAlerts(cs, p) == cs[p].alerts

\* one turn of branch.inventory.forEach in invocation p
PushItem(p) ==
    /\ ~calls[p].returned
    /\ calls[p].done < Len(ForEachOrder(calls[p].branchData))
    /\ LET e == ForEachOrder(calls[p].branchData)[calls[p].done + 1]
           q == 3 - p
       IN  calls' = [calls EXCEPT
                        ![p].alerts = LocalAlerts(calls, p)
                                        \o ItemAlerts(e.branch, e.item, calls[p].now, clock),
                        ![p].done = @ + 1,
                        ![p].interleaved =
                            @ \/ (calls[q].done > 0 /\ ~calls[q].returned)]
    /\ CallsFrame

\* alerts.sort(...) and setBranchAlerts(alerts) of invocation p
SortAndSet(p) ==
    /\ ~calls[p].returned
    /\ calls[p].done = Len(ForEachOrder(calls[p].branchData))
    /\ calls' = [calls EXCEPT ![p].result = SortAlerts(LocalAlerts(calls, p)),
                              ![p].returned = TRUE]
    /\ CallsFrame

NextCalls == \E p \in 1..2 : PushItem(p) \/ SortAndSet(p)

SpecCalls == InitCalls /\ [][NextCalls]_vars

(***************************************************************************)
(* fetchAllBranches with its awaits: several invocations in flight, whose  *)
(* responses arrive in any order.                                          *)
(***************************************************************************)
MaxFetches == 2

\* what the server answers at three moments: one branch with an expired batch low on
\* stock, the same branch restocked together with a second branch, no branch
FetchSnapshots ==
    { <<ResponseItem("u1", <<Batch(1, <<5, 0, 0>>, DateOf(0 - 10), DateOf(0))>>)>>,
      <<ResponseItem("u2", <<Batch(1, <<0, 15, 0>>, DateOf(0 - 10), DateOf(31))>>),
        ResponseItem("u1", <<Batch(1, <<100, 0, 0>>, DateOf(0 - 10), DateOf(0))>>)>>,
      <<>> }

InitFetch ==
    /\ clock \in 0..MaxClock
    /\ server \in FetchSnapshots
    /\ now = clock
    /\ effectNow = clock
    /\ branches = <<>>
    /\ branchAlerts = <<>>
    /\ gen = [now |-> clock, clock |-> clock, run |-> "none"]
    /\ batch = IdleBatch
    /\ out = NoCall
    /\ calls = NoCalls
    /\ fetches = <<>>
    /\ isLoading = FALSE
    /\ inventory = <<>>
    /\ DispenseIdle
    /\ SyncIdle
    /\ ServerIdle

\* the branch inventories on the server change (a branch syncs its inventory)
ServerChange ==
    /\ server' \in FetchSnapshots \ {server}
    /\ UNCHANGED <<clock, viewVars, batch, out, calls, fetchVars, inventory, dispenseVars, syncVars, serverVars>>

\* fetchAllBranches up to its first await, run from a closure whose now is
\* closureNow: setIsLoading(true), the request leaves and the server answers it
StartFetch(closureNow) ==
    /\ Len(fetches) < MaxFetches
    /\ fetches' = Append(fetches,
                    [now |-> closureNow, data |-> server, status |-> "pending", finished |-> 0])
    /\ isLoading' = TRUE
    /\ now' = IF isLoading THEN now ELSE clock
    /\ UNCHANGED <<clock, server, effectNow, branches, branchAlerts, gen, batch, out, calls,
                   inventory, dispenseVars, syncVars, serverVars>>

\* the initial call of the effect and the calls of its 30 second timer
StartAutoRefresh == StartFetch(effectNow)

\* the Refresh Now button: disabled={isLoading}
StartManualRefresh ==
    /\ ~isLoading
    /\ StartFetch(now)

\* the number of invocations that have run their finally block
Finished == Cardinality({ i \in 1..Len(fetches) : fetches[i].status # "pending" })

\* a catch block that empties what is displayed
CompleteFailedClearing(i) ==
    /\ i \in 1..Len(fetches)
    /\ fetches[i].status = "pending"
    /\ fetches' = [fetches EXCEPT ![i].status = "failed", ![i].finished = Finished + 1]
    /\ branches' = <<>>
    /\ branchAlerts' = <<>>
    /\ isLoading' = FALSE
    /\ now' = clock
    /\ UNCHANGED <<clock, server, effectNow, gen, batch, out, calls, inventory, dispenseVars,
                   syncVars, serverVars>>

\* the response of invocation i arrives with response.ok: setBranches(branchData),
\* generateBranchAlerts(branchData), then finally
CompleteOk(i) ==
    /\ i \in 1..Len(fetches)
    /\ fetches[i].status = "pending"
    /\ fetches' = [fetches EXCEPT ![i].status = "ok", ![i].finished = Finished + 1]
    /\ branches' = BranchDataOf(fetches[i].data)
    /\ branchAlerts' = generateBranchAlerts(BranchDataOf(fetches[i].data), fetches[i].now, clock)
    /\ gen' = [now |-> fetches[i].now, clock |-> clock,
               run |-> IF gen.run = "none" THEN "first"
                       ELSE IF fetches[i].now = gen.now /\ DayOf(clock) = DayOf(gen.clock)
                       THEN "repeat" ELSE "again"]
    /\ isLoading' = FALSE
    /\ now' = clock
    /\ UNCHANGED <<clock, server, effectNow, batch, out, calls, inventory, dispenseVars,
                   syncVars, serverVars>>

\* the request of invocation i is rejected or answered with !response.ok: the catch
\* block shows a toast, then finally
CompleteFailed(i) ==
    /\ i \in 1..Len(fetches)
    /\ fetches[i].status = "pending"
    /\ fetches' = [fetches EXCEPT ![i].status = "failed", ![i].finished = Finished + 1]
    /\ isLoading' = FALSE
    /\ now' = clock
    /\ UNCHANGED <<clock, server, effectNow, branches, branchAlerts, gen, batch, out, calls,
                   inventory, dispenseVars, syncVars, serverVars>>

NextFetch ==
    \/ Tick
    \/ ServerChange
    \/ StartAutoRefresh
    \/ StartManualRefresh
    \/ \E i \in 1..MaxFetches : CompleteOk(i) \/ CompleteFailed(i)

SpecFetch == InitFetch /\ [][NextFetch]_vars

(***************************************************************************)
(* The dispense view over the inventory of App.                            *)
(***************************************************************************)
\* the stock on hand up to which the specification follows a batch
MaxStock == 8

\* the one drug that the batches of this specification are batches of
DrugName == [drugName |-> "Paracetamol"]

\* <<beginningInventory, quantityReceived, quantityDispensed>>: five units, two
\* units, none left
DispenseStocks == { <<5, 0, 0>>, <<0, 3, 1>>, <<2, 0, 2>> }

\* expired on the first day of the clock, and far from expiry
DispenseExpirations == {DateOf(0), DateOf(400)}

DispenseInventories ==
    UNION { { [i \in 1..k |-> Batch(i, c[i][1], DateOf(0 - 10), c[i][2])] :
                c \in [1..k -> DispenseStocks \X DispenseExpirations] } :
            k \in 0..MaxBatches }

\* what is typed into the quantity field: nothing, or a number
Empty == <<>>

Typed == {Empty, <<0 - 1>>, <<0>>, <<1>>, <<2>>, <<3>>, <<6>>}

\* parseInt(e.target.value) || 0
ParsedQuantity(typed) == IF typed = Empty THEN 0 ELSE typed[1]

InitDispense ==
    /\ clock \in 0..MaxClock
    /\ inventory \in DispenseInventories
    /\ DispenseIdle
    /\ server = <<>>
    /\ now = clock
    /\ effectNow = clock
    /\ branches = <<>>
    /\ branchAlerts = <<>>
    /\ gen = [now |-> clock, clock |-> clock, run |-> "none"]
    /\ batch = IdleBatch
    /\ out = NoCall
    /\ calls = NoCalls
    /\ FetchIdle
    /\ SyncIdle
    /\ ServerIdle

DispenseFrame == UNCHANGED <<clock, server, viewVars, batch, out, calls, fetchVars, syncVars, serverVars>>

\* the filter of matchedBatches: stock > 0 && new Date(expirationDate) >= new Date()
Matched(item) ==
    /\ StockOnHand(item) > 0
    /\ JsGe(getTime(item.expirationDate), Int2Num(clock))

\* a drug of the search results is clicked
handleSelectDrug ==
    /\ selectedDrugName = Null
    /\ \E k \in 1..Len(inventory) : Matched(inventory[k])
    /\ selectedDrugName' = DrugName
    /\ selectedBatch' = Null
    /\ quantity' = 0
    /\ error' = ""
    /\ UNCHANGED <<inventory, showConfirmation>>
    /\ DispenseFrame

\* "Change drug": setSelectedDrugName(null)
ChangeDrug ==
    /\ selectedDrugName # Null
    /\ selectedBatch = Null
    /\ selectedDrugName' = Null
    /\ UNCHANGED <<inventory, selectedBatch, quantity, error, showConfirmation>>
    /\ DispenseFrame

\* a batch of the selected drug is clicked: the state keeps the batch object
handleSelectBatch(k) ==
    /\ selectedDrugName # Null
    /\ selectedBatch = Null
    /\ k \in 1..Len(inventory)
    /\ Matched(inventory[k])
    /\ selectedBatch' = inventory[k]
    /\ quantity' = 0
    /\ error' = ""
    /\ UNCHANGED <<inventory, selectedDrugName, showConfirmation>>
    /\ DispenseFrame

\* "Change dosage/batch": setSelectedBatch(null)
ChangeBatch ==
    /\ selectedBatch # Null
    /\ selectedBatch' = Null
    /\ UNCHANGED <<inventory, selectedDrugName, quantity, error, showConfirmation>>
    /\ DispenseFrame

\* onChange of the quantity field, which is rendered while a batch is selected; the
\* confirmation dialog is drawn over the form and leaves the field enabled
EnterQuantity(typed) ==
    /\ selectedBatch # Null
    /\ quantity' = ParsedQuantity(typed)
    /\ UNCHANGED <<inventory, selectedDrugName, selectedBatch, error, showConfirmation>>
    /\ DispenseFrame

\* the Dispense button, disabled={!selectedBatch || quantity <= 0}
handleDispenseClick ==
    /\ selectedBatch # Null
    /\ quantity > 0
    /\ IF quantity > StockOnHand(selectedBatch)
       THEN /\ error' = "Insufficient stock"
            /\ UNCHANGED showConfirmation
       ELSE /\ error' = ""
            /\ showConfirmation' = TRUE
    /\ UNCHANGED <<inventory, selectedDrugName, selectedBatch, quantity>>
    /\ DispenseFrame

\* Cancel of the confirmation dialog, rendered when showConfirmation && selectedBatch
CancelConfirmation ==
    /\ showConfirmation
    /\ selectedBatch # Null
    /\ showConfirmation' = FALSE
    /\ UNCHANGED <<inventory, selectedDrugName, selectedBatch, quantity, error>>
    /\ DispenseFrame

\* handleDispense of App: the updater of setInventory
handleDispense(prev, batchId, amount) ==
    [k \in 1..Len(prev) |->
        IF prev[k].id = batchId
        THEN [prev[k] EXCEPT !.quantityDispensed = prev[k].quantityDispensed + amount]
        ELSE prev[k]]

\* Confirm Dispense of the confirmation dialog
handleConfirmDispense ==
    /\ showConfirmation
    /\ selectedBatch # Null
    /\ inventory' = handleDispense(inventory, selectedBatch.id, quantity)
    /\ \A k \in 1..Len(inventory') : StockOnHand(inventory'[k]) <= MaxStock
    /\ quantity' = 0
    /\ selectedBatch' = Null
    /\ selectedDrugName' = Null
    /\ error' = ""
    /\ showConfirmation' = FALSE
    /\ DispenseFrame

NextDispense ==
    \/ handleSelectDrug
    \/ ChangeDrug
    \/ \E k \in 1..MaxBatches : handleSelectBatch(k)
    \/ ChangeBatch
    \/ \E typed \in Typed : EnterQuantity(typed)
    \/ handleDispenseClick
    \/ CancelConfirmation
    \/ handleConfirmDispense

SpecDispense == InitDispense /\ [][NextDispense]_vars

(***************************************************************************)
(* App: loading the inventory of the signed-in user and the auto-sync.     *)
(***************************************************************************)
\* generateMockData(): its first two batches
MockData ==
    << Batch(1, <<0, 7000, 0>>, DateOf(0 - 10), DateOf(400)),
       Batch(2, <<0, 100, 100>>, DateOf(0 - 10), DateOf(400)) >>

\* the inventories a user may have stored
StoredInventories ==
    { <<Batch(1, <<2, 0, 0>>, DateOf(0 - 10), DateOf(400))>>,
      <<Batch(1, <<0, 3, 2>>, DateOf(0 - 10), DateOf(0)),
        Batch(2, <<2, 0, 0>>, DateOf(0 - 10), DateOf(400))>> }

\* the session of the signed-in user
UserSession == [access_token |-> "token"]

\* how a GET /inventory ends for fetchInventory
FetchOutcomes ==
    {"array", "null", "notJson", "emptyText", "notArray", "status500", "status401", "rejected"}

InitSync ==
    /\ clock \in 0..MaxClock
    /\ cloud \in {NoValue} \cup { Stored(value) : value \in StoredInventories }
    /\ session = Null
    /\ isDataLoaded = FALSE
    /\ origin = "none"
    /\ inventory = <<>>
    /\ DispenseIdle
    /\ server = <<>>
    /\ now = clock
    /\ effectNow = clock
    /\ branches = <<>>
    /\ branchAlerts = <<>>
    /\ gen = [now |-> clock, clock |-> clock, run |-> "none"]
    /\ batch = IdleBatch
    /\ out = NoCall
    /\ calls = NoCalls
    /\ FetchIdle
    /\ ServerIdle

SyncFrame ==
    UNCHANGED <<clock, server, viewVars, batch, out, calls, fetchVars, dispenseVars, serverVars>>

\* the effect on [inventory], run by the render that follows a setInventory, and
\* syncInventoryToCloud: the POST stores the inventory or fails
AutoSync ==
    cloud' \in IF isDataLoaded' /\ session' # Null THEN {Stored(inventory'), cloud} ELSE {cloud}

\* fetchInventory(token) with a token, by the way its GET /inventory ends
fetchInventory(outcome) ==
    /\ outcome = "array" => cloud.stored
    /\ outcome = "null" => ~cloud.stored
    /\ IF outcome = "array"
       THEN inventory' = cloud.value /\ isDataLoaded' = TRUE /\ origin' = "server"
       ELSE IF outcome = "null"
       THEN inventory' = MockData /\ isDataLoaded' = TRUE /\ origin' = "new"
       ELSE IF outcome = "status401"
       THEN inventory' = <<>> /\ isDataLoaded' = FALSE /\ origin' = "cleared"
       ELSE inventory' = MockData /\ isDataLoaded' = TRUE /\ origin' = "mock"
    /\ session' = IF outcome = "status401" THEN Null ELSE UserSession
    /\ AutoSync
    /\ SyncFrame

\* handleLogin of App, called by the login view
handleLogin(outcome) ==
    /\ session = Null
    /\ fetchInventory(outcome)

\* onAuthStateChange with SIGNED_IN: the effect's closure has isDataLoaded = false
OnSignedIn(outcome) ==
    /\ session # Null
    /\ fetchInventory(outcome)

\* onAuthStateChange with SIGNED_OUT, and handleLogout
OnSignedOut ==
    /\ session # Null
    /\ session' = Null
    /\ inventory' = <<>>
    /\ isDataLoaded' = FALSE
    /\ origin' = "cleared"
    /\ AutoSync
    /\ SyncFrame

\* the ids of the batches held
HeldIds == { inventory[k].id : k \in 1..Len(inventory) }

\* handleAddStock: a batch of one unit under a new id
handleAddStock(id) ==
    /\ session # Null
    /\ Len(inventory) < MaxBatches
    /\ id \notin HeldIds
    /\ inventory' = Append(inventory, Batch(id, <<0, 1, 0>>, DateOf(0), DateOf(400)))
    /\ UNCHANGED <<session, isDataLoaded, origin>>
    /\ AutoSync
    /\ SyncFrame

\* handleDispense of one unit of a batch that has stock
DispenseUnit(k) ==
    /\ session # Null
    /\ k \in 1..Len(inventory)
    /\ StockOnHand(inventory[k]) > 0
    /\ StockOnHand(inventory[k]) <= MaxStock
    /\ inventory' = handleDispense(inventory, inventory[k].id, 1)
    /\ UNCHANGED <<session, isDataLoaded, origin>>
    /\ AutoSync
    /\ SyncFrame

\* prev.filter(batch => batch.id !== batchId)
RECURSIVE WithoutBatch(_, _)
WithoutBatch(prev, batchId) ==
    IF prev = <<>> THEN <<>>
    ELSE IF Head(prev).id = batchId THEN WithoutBatch(Tail(prev), batchId)
    ELSE <<Head(prev)>> \o WithoutBatch(Tail(prev), batchId)

handleDeleteBatch(k) ==
    /\ session # Null
    /\ k \in 1..Len(inventory)
    /\ inventory' = WithoutBatch(inventory, inventory[k].id)
    /\ UNCHANGED <<session, isDataLoaded, origin>>
    /\ AutoSync
    /\ SyncFrame

NextSync ==
    \/ \E outcome \in FetchOutcomes : handleLogin(outcome) \/ OnSignedIn(outcome)
    \/ OnSignedOut
    \/ \E id \in 1..(MaxBatches + 1) : handleAddStock(id)
    \/ \E k \in 1..MaxBatches : DispenseUnit(k) \/ handleDeleteBatch(k)

SpecSync == InitSync /\ [][NextSync]_vars

(***************************************************************************)
(* The server: accounts, approval and the inventory routes.                *)
(***************************************************************************)
\* the roles offered by the registration form
SignupRoles == {"Pharmacy Staff", "Health Officer"}

InitServer ==
    /\ clock \in 0..MaxClock
    /\ ServerIdle
    /\ server = <<>>
    /\ now = clock
    /\ effectNow = clock
    /\ branches = <<>>
    /\ branchAlerts = <<>>
    /\ gen = [now |-> clock, clock |-> clock, run |-> "none"]
    /\ batch = IdleBatch
    /\ out = NoCall
    /\ calls = NoCalls
    /\ FetchIdle
    /\ inventory = <<>>
    /\ DispenseIdle
    /\ SyncIdle

ServerFrame ==
    UNCHANGED <<clock, server, viewVars, batch, out, calls, fetchVars, inventory, dispenseVars,
                syncVars>>

\* the response to a request of caller u on a route
Respond(route, u, status) ==
    [route |-> route, userId |-> u, status |-> status,
     role |-> accounts[u].role, approved |-> accounts[u].approved]

\* POST /signup: auth.admin.createUser with approved = false for Pharmacy Staff
signup(u, role) ==
    /\ IF accounts[u].exists
       THEN /\ response' = Respond("POST /signup", u, 400)
            /\ UNCHANGED accounts
       ELSE /\ accounts' = [accounts EXCEPT ![u] =
                  [exists |-> TRUE, role |-> role,
                   approved |-> IF role = "Pharmacy Staff" THEN FALSE ELSE TRUE]]
            /\ response' = [Respond("POST /signup", u, 200) EXCEPT
                               !.role = role, !.approved = accounts'[u].approved]
    /\ UNCHANGED <<tokens, kv>>
    /\ ServerFrame

\* supabase.auth.signInWithPassword with the account's email and password
signInWithPassword(u) ==
    /\ accounts[u].exists
    /\ tokens' = tokens \cup {u}
    /\ UNCHANGED <<accounts, kv, response>>
    /\ ServerFrame

\* supabase.auth.signOut, which handleSubmit calls for a Pharmacy Staff account with
\* approved === false, and which any signed-in user may call
signOut(u) ==
    /\ u \in tokens
    /\ tokens' = tokens \ {u}
    /\ UNCHANGED <<accounts, kv, response>>
    /\ ServerFrame

\* checkAuth: the X-User-Token of caller u passes auth.getUser
checkAuth(u) == u \in tokens /\ accounts[u].exists

\* GET /inventory
GetInventory(u) ==
    /\ response' = Respond("GET /inventory", u, IF checkAuth(u) THEN 200 ELSE 401)
    /\ UNCHANGED <<accounts, tokens, kv>>
    /\ ServerFrame

\* POST /inventory
PostInventory(u, value) ==
    /\ IF checkAuth(u)
       THEN /\ kv' = [kv EXCEPT ![u] = Stored(value)]
            /\ response' = Respond("POST /inventory", u, 200)
       ELSE /\ response' = Respond("POST /inventory", u, 401)
            /\ UNCHANGED kv
    /\ UNCHANGED <<accounts, tokens>>
    /\ ServerFrame

\* the status of the routes of the Administrator for caller a
AdminStatus(a) ==
    IF ~checkAuth(a) THEN 401
    ELSE IF accounts[a].role # "Administrator" THEN 403
    ELSE 200

\* POST /approve-user/:userId
approveUser(a, u) ==
    /\ IF AdminStatus(a) # 200
       THEN /\ response' = Respond("POST /approve-user", a, AdminStatus(a))
            /\ UNCHANGED accounts
       ELSE IF ~accounts[u].exists
       THEN /\ response' = Respond("POST /approve-user", a, 404)
            /\ UNCHANGED accounts
       ELSE /\ accounts' = [accounts EXCEPT ![u].approved = TRUE]
            /\ response' = Respond("POST /approve-user", a, 200)
    /\ UNCHANGED <<tokens, kv>>
    /\ ServerFrame

\* POST /reject-user/:userId: auth.admin.deleteUser
rejectUser(a, u) ==
    /\ IF AdminStatus(a) # 200
       THEN /\ response' = Respond("POST /reject-user", a, AdminStatus(a))
            /\ UNCHANGED <<accounts, tokens>>
       ELSE IF ~accounts[u].exists
       THEN /\ response' = Respond("POST /reject-user", a, 400)
            /\ UNCHANGED <<accounts, tokens>>
       ELSE /\ accounts' = [accounts EXCEPT ![u] = NoAccount]
            /\ tokens' = tokens \ {u}
            /\ response' = Respond("POST /reject-user", a, 200)
    /\ UNCHANGED kv
    /\ ServerFrame

NextServer ==
    \/ \E u \in Users, role \in SignupRoles : signup(u, role)
    \/ \E u \in AccountIds : signInWithPassword(u) \/ signOut(u) \/ GetInventory(u)
    \/ \E u \in AccountIds, value \in StoredInventories : PostInventory(u, value)
    \/ \E a \in AccountIds, u \in Users : approveUser(a, u) \/ rejectUser(a, u)

SpecServer == InitServer /\ [][NextServer]_vars

(***************************************************************************)
(* Properties.                                                             *)
(***************************************************************************)
AlertsOfType(alerts, types) == SelectSeq(alerts, LAMBDA a : a.alertType \in types)

ExpiryTypes == {"expired", "critical", "nearExpiry"}

\* C1. Floor property: for every batch with non-negative quantities and a receipt
\* date (past, same-day or future-dated) and every config, calculateReorderPoint
\* returns at least config.minimumThreshold.
C1_FloorProperty ==
    (out.fn = "calculateReorderPoint" /\ batch.dateReceived.valid)
        => JsGe(out.value, Int2Num(out.config.minimumThreshold))

\* the floor decides: there is usage, and the point computed from it is below the
\* threshold that is returned
C1_Witness ==
    /\ out.fn = "calculateReorderPoint"
    /\ batch.dateReceived.valid
    /\ JsGt(calculateAverageDailyUsage(batch, Undefined, clock), Int2Num(0))
    /\ out.config.minimumThreshold = 20
    /\ out.config.leadTimeDays = 14
    /\ JsEq(out.value, Int2Num(20))

\* C2. Mutual exclusivity: the record getStockStatus returns never has isLowStock
\* and isOutOfStock both true.
C2_MutuallyExclusive ==
    out.fn = "getStockStatus" => ~(out.value.isLowStock /\ out.value.isOutOfStock)

\* an out-of-stock batch whose stock is not above the reorder point
C2_Witness ==
    /\ out.fn = "getStockStatus"
    /\ out.value.isOutOfStock
    /\ ~out.value.isLowStock
    /\ JsLe(Int2Num(out.value.currentStock), out.value.reorderPoint)

\* C3. A batch whose stock on hand is zero or negative is never low stock: isLowStock
\* returns false, getStockStatus.isLowStock is false, and the generator emits no
\* lowStock alert for it.
C3_NoLowStockAtOrBelowZero ==
    StockOnHand(batch) <= 0 =>
        /\ out.fn = "isLowStock" => out.value = FALSE
        /\ out.fn = "getStockStatus" => out.value.isLowStock = FALSE
        /\ out.fn = "generateBranchAlerts"
              => AlertsOfType(out.value, {"lowStock"}) = <<>>

\* the generator ran on a batch with negative stock and emitted its expiry alert only
C3_Witness ==
    /\ out.fn = "generateBranchAlerts"
    /\ StockOnHand(batch) < 0
    /\ Len(out.value) = 1
    /\ out.value[1].alertType = "critical"

\* the ranks the feed is ordered by
SeverityRank(severity) ==
    CASE severity = "high" -> 0 [] severity = "medium" -> 1 [] severity = "low" -> 2

TypeRank(alertType) ==
    CASE alertType = "expired" -> 0 [] alertType = "critical" -> 1
      [] alertType = "lowStock" -> 2 [] alertType = "nearExpiry" -> 3

\* the place of an alert's branch in branches, and with the batch id the order in
\* which the generator reaches the batch
BranchPos(branchId) == CHOOSE i \in 1..Len(branches) : branches[i].userId = branchId

GeneratedBefore(a, b) ==
    \/ BranchPos(a.branchId) < BranchPos(b.branchId)
    \/ BranchPos(a.branchId) = BranchPos(b.branchId) /\ a.item.id < b.item.id

SeqSet(seq) == { seq[i] : i \in 1..Len(seq) }

\* C4. The feed holds the alerts generated for the held branches, ordered by
\* (severity rank, type rank); alerts of equal severity and type keep the order in
\* which they were generated (branch order, then batch order).
C4_FeedOrdered ==
    LET pushed == PushedAlerts(branches, gen.now, gen.clock)
    IN  /\ Len(branchAlerts) = Len(pushed)
        /\ SeqSet(branchAlerts) = SeqSet(pushed)
        /\ \A i, j \in 1..Len(branchAlerts) :
             i < j =>
               LET a == branchAlerts[i]
                   b == branchAlerts[j]
               IN  \/ SeverityRank(a.severity) < SeverityRank(b.severity)
                   \/ /\ SeverityRank(a.severity) = SeverityRank(b.severity)
                      /\ TypeRank(a.alertType) < TypeRank(b.alertType)
                   \/ /\ SeverityRank(a.severity) = SeverityRank(b.severity)
                      /\ TypeRank(a.alertType) = TypeRank(b.alertType)
                      /\ GeneratedBefore(a, b)

\* a feed the sort had to reorder, with two alerts of one severity and type from
\* two branches, and alerts of both severities
C4_Witness ==
    /\ gen.run # "none"
    /\ branchAlerts # PushedAlerts(branches, gen.now, gen.clock)
    /\ \E i, j \in 1..Len(branchAlerts) :
         /\ i < j
         /\ branchAlerts[i].severity = branchAlerts[j].severity
         /\ branchAlerts[i].alertType = branchAlerts[j].alertType
         /\ branchAlerts[i].branchId # branchAlerts[j].branchId
    /\ \E i, j \in 1..Len(branchAlerts) :
         branchAlerts[i].severity = "high" /\ branchAlerts[j].severity = "medium"

\* the expiry-type alerts of a list, without the fields copied from the batch
ExpiryPart(alerts) ==
    LET e == AlertsOfType(alerts, ExpiryTypes)
    IN  [i \in 1..Len(e) |->
            [alertType |-> e[i].alertType, severity |-> e[i].severity,
             daysUntilExpiry |-> e[i].daysUntilExpiry]]

\* C5. Expiry buckets: for a batch with a parseable expirationDate the generator
\* emits exactly one expiry-type alert when daysUntilExpiry <= 180 (expired below 0,
\* critical for 0..30, nearExpiry for 31..180) and none when daysUntilExpiry > 180.
C5_ExpiryBuckets ==
    (out.fn = "generateBranchAlerts" /\ batch.expirationDate.valid) =>
        LET days == DaysUntilExpiry(batch, out.now).n
            e == ExpiryPart(out.value)
        IN  IF days <= 180
            THEN /\ Len(e) = 1
                 /\ e[1].daysUntilExpiry = days
                 /\ e[1].alertType = IF days < 0 THEN "expired"
                                     ELSE IF days <= 30 THEN "critical"
                                     ELSE "nearExpiry"
            ELSE e = <<>>

\* the generator ran with the batch exactly 30 days from expiry and called it critical
C5_Witness ==
    /\ out.fn = "generateBranchAlerts"
    /\ batch.expirationDate.valid
    /\ DaysUntilExpiry(batch, out.now).n = 30
    /\ Len(ExpiryPart(out.value)) = 1
    /\ ExpiryPart(out.value)[1].alertType = "critical"

\* C6. daysUntilExpiry is the difference in calendar days between expirationDate and
\* today, whatever the time of day: a batch that expires on the day the generator's
\* now falls in gets a critical alert with daysUntilExpiry = 0.
C6_ExpiringTodayIsCritical ==
    \A i \in 1..Len(branches) :
        \A k \in 1..Len(branches[i].inventory) :
            LET item == branches[i].inventory[k]
            IN  (item.expirationDate.valid /\ item.expirationDate.day = DayOf(gen.now))
                    => \E a \in SeqSet(branchAlerts) :
                          /\ a.branchId = branches[i].userId
                          /\ a.item = item
                          /\ a.alertType = "critical"
                          /\ a.daysUntilExpiry = 0

\* C8. Monotonicity: with a valid config and the rest held fixed, calculateReorderPoint
\* does not decrease when the average daily usage, leadTimeDays or
\* safetyStockPercentage increases.
C8_Monotone ==
    (out.fn = "calculateReorderPoint" /\ batch.dateReceived.valid
        /\ ValidConfig(out.config)) =>
        /\ \A config \in Configs :
             ( /\ ValidConfig(config)
               /\ config.minimumThreshold = out.config.minimumThreshold
               /\ config.leadTimeDays >= out.config.leadTimeDays
               /\ JsGe(config.safetyStockPercentage, out.config.safetyStockPercentage) )
             => JsLe(out.value, calculateReorderPoint(batch, config, clock))
        /\ \A dispensed \in {0, 5, 30}, received \in ReceivedDates :
             LET other == [batch EXCEPT !.quantityDispensed = dispensed,
                                        !.dateReceived = received]
             IN  ( /\ received.valid
                   /\ JsLe(calculateAverageDailyUsage(batch, Undefined, clock),
                           calculateAverageDailyUsage(other, Undefined, clock)) )
                 => JsLe(out.value, calculateReorderPoint(other, out.config, clock))

\* a reorder point above the threshold that a larger safety stock percentage and a
\* larger usage each raise
C8_Witness ==
    /\ out.fn = "calculateReorderPoint"
    /\ batch.dateReceived.valid
    /\ ValidConfig(out.config)
    /\ JsGt(out.value, Int2Num(out.config.minimumThreshold))
    /\ \E config \in Configs :
         /\ ValidConfig(config)
         /\ config.minimumThreshold = out.config.minimumThreshold
         /\ config.leadTimeDays = out.config.leadTimeDays
         /\ JsGt(config.safetyStockPercentage, out.config.safetyStockPercentage)
         /\ JsLt(out.value, calculateReorderPoint(batch, config, clock))
    /\ \E dispensed \in {0, 5, 30} :
         JsLt(out.value,
              calculateReorderPoint([batch EXCEPT !.quantityDispensed = dispensed],
                                    out.config, clock))

\* the batches the server holds for a user
ServerItems(userId) ==
    UNION { SeqSet(server[i].value) : i \in { k \in 1..Len(server) : server[k].userId = userId } }

C9_LowStockAlert ==
    out.fn = "generateBranchAlerts" =>
        LET currentStock == StockOnHand(batch)
            reorderPoint == calculateReorderPoint(batch, DEFAULT_REORDER_CONFIG, clock)
            low == AlertsOfType(out.value, {"lowStock"})
        IN  /\ Len(low) = IF currentStock > 0 /\ JsLe(Int2Num(currentStock), reorderPoint)
                          THEN 1 ELSE 0
            /\ \A a \in SeqSet(low) :
                 /\ a.stockLevel = currentStock
                 /\ a.severity = IF JsLt(Int2Num(2 * currentStock), reorderPoint)
                                 THEN "high" ELSE "medium"
            /\ \A a \in SeqSet(out.value) : a.severity # "low"

\* a lowStock alert of severity medium for a stock of exactly half the reorder point
C9_Witness ==
    /\ out.fn = "generateBranchAlerts"
    /\ \E a \in SeqSet(out.value) :
         /\ a.alertType = "lowStock"
         /\ a.severity = "medium"
         /\ JsEq(Int2Num(2 * a.stockLevel),
                 calculateReorderPoint(batch, DEFAULT_REORDER_CONFIG, clock))

\* C10. Expiry and stock are classified independently: a batch yields at most one
\* expiry-type alert and at most one lowStock alert; the expiry-type alert is the
\* same for every batch with that expirationDate at that now, whatever its stock,
\* its receipt date and the clock; a batch in an expiry bucket and low on stock
\* yields both alerts.
C10_Independent ==
    out.fn = "generateBranchAlerts" =>
        LET expiry == AlertsOfType(out.value, ExpiryTypes)
            low == AlertsOfType(out.value, {"lowStock"})
            days == DaysUntilExpiry(batch, out.now)
        IN  /\ Len(expiry) <= 1
            /\ Len(low) <= 1
            /\ Len(out.value) = Len(expiry) + Len(low)
            /\ \A other \in UnitBatches, today \in 0..MaxClock :
                 other.expirationDate = batch.expirationDate
                    => ExpiryPart(generateBranchAlerts(<<UnitBranch(other)>>, out.now, today))
                         = ExpiryPart(out.value)
            /\ ( /\ JsLe(days, Int2Num(180))
                 /\ StockOnHand(batch) > 0
                 /\ isLowStock(batch, DEFAULT_REORDER_CONFIG, clock) )
               => Len(expiry) = 1 /\ Len(low) = 1

\* a batch that yielded its expiry alert and its lowStock alert
C10_Witness ==
    /\ out.fn = "generateBranchAlerts"
    /\ Len(out.value) = 2
    /\ out.value[1].alertType = "critical"
    /\ out.value[2].alertType = "lowStock"

\* the expirationDate of the batch is a day before the day the generator's now is in
ExpirationInPast(item, closureNow) ==
    item.expirationDate.valid /\ item.expirationDate.day < DayOf(closureNow)

\* C11 as stated: for a batch whose expirationDate is in the past the generator emits
\* exactly one alert, of type expired with severity high, carrying daysUntilExpiry
\* and stockLevel, and no stock alert whatever the stock level.
C11_ExactlyOneAlert ==
    (out.fn = "generateBranchAlerts" /\ ExpirationInPast(batch, out.now)) =>
        /\ Len(out.value) = 1
        /\ out.value[1].alertType = "expired"
        /\ out.value[1].severity = "high"
        /\ out.value[1].daysUntilExpiry = DaysUntilExpiry(batch, out.now).n
        /\ out.value[1].stockLevel = StockOnHand(batch)
        /\ AlertsOfType(out.value, {"lowStock"}) = <<>>

\* C11. For a batch whose expirationDate is in the past the generator emits exactly
\* one expiry-type alert, of type expired with severity high, carrying the negative
\* daysUntilExpiry and the stockLevel; it emits a lowStock alert as well exactly when
\* the stock is positive and at most the reorder point, and nothing else.
C11_ExpiredAlert ==
    (out.fn = "generateBranchAlerts" /\ ExpirationInPast(batch, out.now)) =>
        LET expiry == AlertsOfType(out.value, ExpiryTypes)
            low == AlertsOfType(out.value, {"lowStock"})
            currentStock == StockOnHand(batch)
            reorderPoint == calculateReorderPoint(batch, DEFAULT_REORDER_CONFIG, clock)
        IN  /\ Len(expiry) = 1
            /\ expiry[1].alertType = "expired"
            /\ expiry[1].severity = "high"
            /\ expiry[1].daysUntilExpiry < 0
            /\ expiry[1].daysUntilExpiry
                 = batch.expirationDate.day - 1 - ((out.now - 1) \div TicksPerDay)
            /\ expiry[1].stockLevel = currentStock
            /\ Len(low) = IF currentStock > 0 /\ JsLe(Int2Num(currentStock), reorderPoint)
                          THEN 1 ELSE 0
            /\ Len(out.value) = 1 + Len(low)

\* an expired batch low on stock: the expired alert and a lowStock alert
C11_Witness ==
    /\ out.fn = "generateBranchAlerts"
    /\ ExpirationInPast(batch, out.now)
    /\ Len(out.value) = 2
    /\ out.value[1].alertType = "expired"
    /\ out.value[2].alertType = "lowStock"
    /\ out.value[2].item = batch

\* C12. For a batch with quantityDispensed = 0 under the default config: the average
\* daily usage is 0 and the reorder point is 20; a lowStock alert is emitted exactly
\* when 0 < currentStock <= 20, with severity high exactly when currentStock < 10;
\* a stock of 5 gives one high lowStock alert, and an ample stock gives none (only a
\* medium nearExpiry alert when the expiry is 31 to 180 days out).
C12_NeverDispensed ==
    batch.quantityDispensed = 0 =>
        LET currentStock == StockOnHand(batch)
            low == IF out.fn = "generateBranchAlerts"
                   THEN AlertsOfType(out.value, {"lowStock"}) ELSE <<>>
        IN  /\ out.fn = "calculateAverageDailyUsage" => JsEq(out.value, Int2Num(0))
            /\ (out.fn = "calculateReorderPoint" /\ out.config = DEFAULT_REORDER_CONFIG)
                  => JsEq(out.value, Int2Num(20))
            /\ (out.fn = "getStockStatus" /\ out.config = DEFAULT_REORDER_CONFIG)
                  => /\ JsEq(out.value.avgDailyUsage, Int2Num(0))
                     /\ JsEq(out.value.reorderPoint, Int2Num(20))
                     /\ out.value.isLowStock = (0 < currentStock /\ currentStock <= 20)
            /\ (out.fn = "isLowStock" /\ out.config = DEFAULT_REORDER_CONFIG)
                  => out.value = (0 < currentStock /\ currentStock <= 20)
            /\ out.fn = "generateBranchAlerts"
                  => /\ Len(low) = IF 0 < currentStock /\ currentStock <= 20 THEN 1 ELSE 0
                     /\ \A a \in SeqSet(low) :
                          /\ a.severity = IF currentStock < 10 THEN "high" ELSE "medium"
                          /\ a.stockLevel = currentStock
                     /\ currentStock = 5
                          => Len(low) = 1 /\ low[1].severity = "high"
                     /\ currentStock >= 100 => low = <<>>
                     /\ ( /\ currentStock >= 100
                          /\ JsGt(DaysUntilExpiry(batch, out.now), Int2Num(30))
                          /\ JsLe(DaysUntilExpiry(batch, out.now), Int2Num(180)) )
                          => /\ Len(out.value) = 1
                             /\ out.value[1].alertType = "nearExpiry"
                             /\ out.value[1].severity = "medium"

\* a never-dispensed batch with a stock of 5 that got its one lowStock alert, high
C12_Witness ==
    /\ out.fn = "generateBranchAlerts"
    /\ batch.quantityDispensed = 0
    /\ StockOnHand(batch) = 5
    /\ Len(AlertsOfType(out.value, {"lowStock"})) = 1
    /\ AlertsOfType(out.value, {"lowStock"})[1].severity = "high"

\* the whole days between the receipt of a batch and an instant
DaysElapsed(item, today) ==
    (today - item.dateReceived.day * TicksPerDay) \div TicksPerDay

\* C13. calculateAverageDailyUsage (no daysSinceReceived supplied) returns 0 when
\* quantityDispensed is 0, returns 0 when the whole days elapsed since dateReceived
\* are zero or negative, and otherwise returns quantityDispensed / daysElapsed (NaN
\* when daysElapsed is NaN); for every batch with a parseable dateReceived the result
\* is finite and non-negative, and its divisor is never zero.
C13_UsageEstimator ==
    (out.fn = "calculateAverageDailyUsage" /\ out.daysSinceReceived = Undefined) =>
        LET dispensed == batch.quantityDispensed
            daysElapsed == DaysElapsed(batch, clock)
        IN  /\ dispensed = 0 => out.value = Int2Num(0)
            /\ batch.dateReceived.valid =>
                  /\ daysElapsed <= 0 => out.value = Int2Num(0)
                  /\ (dispensed # 0 /\ daysElapsed > 0)
                        => /\ ~out.value.nan
                           /\ out.value.n * daysElapsed = dispensed * out.value.d
                  /\ ~out.value.nan
                  /\ out.value.d > 0
                  /\ out.value.n >= 0
            /\ (~batch.dateReceived.valid /\ dispensed # 0) => out.value.nan

\* units were dispensed from a batch received today or on a later date: usage 0
C13_Witness ==
    /\ out.fn = "calculateAverageDailyUsage"
    /\ out.daysSinceReceived = Undefined
    /\ batch.quantityDispensed > 0
    /\ batch.dateReceived.valid
    /\ DaysElapsed(batch, clock) <= 0
    /\ out.value = Int2Num(0)

\* a JavaScript number that is an integer
IsInteger(x) == ~x.nan /\ x.d > 0 /\ x.n % x.d = 0

\* ceil(usage * leadTimeDays * (1 + safetyStockPercentage)) in integer arithmetic
CeilOfDemand(usage, config) ==
    LET pct == config.safetyStockPercentage
        num == usage.n * config.leadTimeDays * (pct.d + pct.n)
        den == usage.d * pct.d
    IN  0 - ((0 - num) \div den)

\* C14. calculateReorderPoint returns config.minimumThreshold when the average daily
\* usage is 0, and otherwise max(ceil(usage * leadTimeDays *
\* (1 + safetyStockPercentage)), minimumThreshold); the result is always an integer
\* (minimumThreshold is an integer in every config of the model).
C14_ReorderPointFormula ==
    out.fn = "calculateReorderPoint" =>
        LET usage == calculateAverageDailyUsage(batch, Undefined, clock)
            threshold == out.config.minimumThreshold
        IN  /\ JsEq(usage, Int2Num(0)) => out.value = Int2Num(threshold)
            /\ (~usage.nan /\ ~JsEq(usage, Int2Num(0)))
                  => out.value = Int2Num(IF CeilOfDemand(usage, out.config) > threshold
                                         THEN CeilOfDemand(usage, out.config)
                                         ELSE threshold)
            /\ IsInteger(out.value)

\* the batch is low on stock or out of stock, by the stock and the reorder point
LowOrOut(item, config, today) ==
    LET currentStock == StockOnHand(item)
    IN  \/ currentStock = 0
        \/ currentStock > 0
             /\ JsLe(Int2Num(currentStock), calculateReorderPoint(item, config, today))

\* max(ceil(u * leadTimeDays * 2 + u * leadTimeDays * safetyStockPercentage),
\* minimumThreshold) in integer arithmetic, u the usage or 1 when the usage is not
\* above 0
SuggestedQuantity(item, config, today) ==
    LET usage == calculateAverageDailyUsage(item, Undefined, today)
        u == IF JsGt(usage, Int2Num(0)) THEN usage ELSE Int2Num(1)
        pct == config.safetyStockPercentage
        num == u.n * config.leadTimeDays * (2 * pct.d + pct.n)
        den == u.d * pct.d
        suggested == 0 - ((0 - num) \div den)
    IN  IF suggested > config.minimumThreshold THEN suggested ELSE config.minimumThreshold

\* C15 as stated, for valid configs: calculateReorderQuantity returns 0 exactly when
\* the batch is neither low-stock nor out-of-stock; when it is, the result is the
\* suggested quantity, non-zero and at least minimumThreshold.
C15_ZeroExactlyWhenNoReorder ==
    (out.fn = "calculateReorderQuantity" /\ ValidConfig(out.config)) =>
        /\ JsEq(out.value, Int2Num(0)) <=> ~LowOrOut(batch, out.config, clock)
        /\ LowOrOut(batch, out.config, clock) =>
              /\ out.value = Int2Num(SuggestedQuantity(batch, out.config, clock))
              /\ ~JsEq(out.value, Int2Num(0))
              /\ JsGe(out.value, Int2Num(out.config.minimumThreshold))

\* C15. calculateReorderQuantity returns 0 when the batch is neither low-stock nor
\* out-of-stock; when it is low-stock or out-of-stock it returns
\* max(ceil(u * leadTimeDays * 2 + u * leadTimeDays * safetyStockPercentage),
\* minimumThreshold), u the average daily usage or 1 without usage history, which is
\* at least minimumThreshold, and non-zero when minimumThreshold > 0 or
\* leadTimeDays > 0.
C15_ReorderQuantity ==
    out.fn = "calculateReorderQuantity" =>
        /\ ~LowOrOut(batch, out.config, clock) => out.value = Int2Num(0)
        /\ LowOrOut(batch, out.config, clock) =>
              /\ out.value = Int2Num(SuggestedQuantity(batch, out.config, clock))
              /\ JsGe(out.value, Int2Num(out.config.minimumThreshold))
              /\ (out.config.minimumThreshold > 0 \/ out.config.leadTimeDays > 0)
                    => JsGt(out.value, Int2Num(0))

\* a low-stock batch that was never dispensed from: the quantity for one unit a day
\* over the default lead time, above the threshold
C15_Witness ==
    /\ out.fn = "calculateReorderQuantity"
    /\ out.config = DEFAULT_REORDER_CONFIG
    /\ batch.quantityDispensed = 0
    /\ StockOnHand(batch) > 0
    /\ out.value = Int2Num(33)

\* C16. getStockStatus.daysOfStockRemaining is floor(currentStock / avgDailyUsage)
\* when the usage is above 0, 999 when the usage is 0 and the stock is positive, and
\* 0 when the usage is 0 and the stock is zero or negative; for every batch with
\* currentStock >= 0 it is non-negative, and it is 0 whenever currentStock is 0.
C16_DaysOfStockRemaining ==
    out.fn = "getStockStatus" =>
        LET currentStock == StockOnHand(batch)
            usage == out.value.avgDailyUsage
            days == out.value.daysOfStockRemaining
        IN  /\ JsGt(usage, Int2Num(0))
                 => days = Int2Num((currentStock * usage.d) \div usage.n)
            /\ (JsEq(usage, Int2Num(0)) /\ currentStock > 0) => days = Int2Num(999)
            /\ (JsEq(usage, Int2Num(0)) /\ currentStock <= 0) => days = Int2Num(0)
            /\ currentStock >= 0 => JsGe(days, Int2Num(0))
            /\ currentStock = 0 => days = Int2Num(0)

\* a batch with usage whose stock lasts a whole number of days that is not the
\* exact quotient
C16_Witness ==
    /\ out.fn = "getStockStatus"
    /\ JsGt(out.value.avgDailyUsage, Int2Num(0))
    /\ StockOnHand(batch) > 0
    /\ JsLt(out.value.daysOfStockRemaining,
            JsDiv(Int2Num(StockOnHand(batch)), out.value.avgDailyUsage))

\* C17. Negative stock is passed through unclamped: for a batch whose dispensed
\* quantity exceeds beginning + received, getStockStatus reports the negative
\* currentStock with isLowStock = false and isOutOfStock = false,
\* calculateReorderQuantity returns 0 and the generator emits no lowStock alert;
\* isOutOfStock is true only when currentStock is exactly 0.
C17_NegativeStock ==
    /\ StockOnHand(batch) < 0 =>
          /\ out.fn = "getStockStatus"
                => /\ out.value.currentStock = StockOnHand(batch)
                   /\ out.value.currentStock < 0
                   /\ out.value.isLowStock = FALSE
                   /\ out.value.isOutOfStock = FALSE
          /\ out.fn = "calculateReorderQuantity" => out.value = Int2Num(0)
          /\ out.fn = "generateBranchAlerts"
                => AlertsOfType(out.value, {"lowStock"}) = <<>>
    /\ out.fn = "getStockStatus"
          => (out.value.isOutOfStock <=> StockOnHand(batch) = 0)

\* no reorder is suggested for a batch with a negative stock
C17_Witness ==
    /\ out.fn = "calculateReorderQuantity"
    /\ out.config = DEFAULT_REORDER_CONFIG
    /\ StockOnHand(batch) < 0
    /\ out.value = Int2Num(0)

\* the alerts of a list that are about one batch, and about the other batches
AlertsOfItem(alerts, item) == SelectSeq(alerts, LAMBDA a : a.item = item)
AlertsOfOthers(alerts, item) == SelectSeq(alerts, LAMBDA a : a.item # item)

\* C18. A batch whose expirationDate does not parse (daysUntilExpiry NaN) matches no
\* expiry bucket and gets no expiry-type alert; the generator returns its list, the
\* batch's lowStock evaluation still runs, and the alerts of every other batch of the
\* snapshot are those of the snapshot without the malformed batch.
C18_UnparseableExpiration ==
    ~batch.expirationDate.valid =>
        LET currentStock == StockOnHand(batch)
            reorderPoint == calculateReorderPoint(batch, DEFAULT_REORDER_CONFIG, clock)
            lowCount == IF currentStock > 0 /\ JsLe(Int2Num(currentStock), reorderPoint)
                        THEN 1 ELSE 0
        IN  /\ out.fn = "generateBranchAlerts"
                  => /\ AlertsOfType(out.value, ExpiryTypes) = <<>>
                     /\ Len(out.value) = lowCount
                     /\ \A a \in SeqSet(out.value) :
                          a.alertType = "lowStock" /\ a.item = batch
            /\ out.fn = "generateBranchAlertsPair"
                  => LET mine == AlertsOfItem(out.value, batch)
                         rest == SelectSeq(out.inventory, LAMBDA item : item # batch)
                     IN  /\ AlertsOfType(mine, ExpiryTypes) = <<>>
                         /\ Len(mine) = lowCount
                         /\ AlertsOfOthers(out.value, batch)
                              = generateBranchAlerts(
                                    <<[UnitBranch(batch) EXCEPT !.inventory = rest]>>,
                                    out.now, clock)

\* a snapshot with a malformed batch low on stock and a well-formed one: the lowStock
\* alert of the first, the expiry and lowStock alerts of the second
C18_Witness ==
    /\ out.fn = "generateBranchAlertsPair"
    /\ ~batch.expirationDate.valid
    /\ out.inventory[1] = batch
    /\ Len(AlertsOfItem(out.value, batch)) = 1
    /\ AlertsOfItem(out.value, batch)[1].alertType = "lowStock"
    /\ Len(AlertsOfOthers(out.value, batch)) = 2
    /\ AlertsOfType(AlertsOfOthers(out.value, batch), ExpiryTypes) # <<>>

AlertTypes == {"expired", "critical", "nearExpiry", "lowStock"}

RECURSIVE SumSeq(_)
SumSeq(numbers) == IF numbers = <<>> THEN 0 ELSE Head(numbers) + SumSeq(Tail(numbers))

\* how many alerts of the feed have a branchId among ids and the type
FeedCount(ids, alertType) ==
    Cardinality({ k \in 1..Len(branchAlerts) :
                    /\ branchAlerts[k].branchId \in ids
                    /\ branchAlerts[k].alertType = alertType })

\* C19. Summary consistency: the locations group the held branches by branchName, so
\* every branch is in exactly one location; the count shown for a branch or a
\* location and an alert type is the number of alerts of the feed of that type whose
\* branchId is that branch's or one of that location's; the counts of a type summed
\* over the locations give the global count of the type.
C19_SummaryConsistent ==
    LET locations == getUniqueLocations(branches)
    IN  /\ \A i \in 1..Len(branches) :
             Cardinality({ l \in 1..Len(locations) :
                             \E k \in 1..Len(locations[l].branches) :
                                 locations[l].branches[k] = branches[i] }) = 1
        /\ \A l \in 1..Len(locations) :
             \A k \in 1..Len(locations[l].branches) :
                 locations[l].branches[k].branchName = locations[l].name
        /\ \A l, m \in 1..Len(locations) :
             l # m => locations[l].name # locations[m].name
        /\ \A alertType \in AlertTypes :
             /\ \A i \in 1..Len(branches) :
                  BranchTypeCount(branchAlerts, branches[i], alertType)
                    = FeedCount({branches[i].userId}, alertType)
             /\ \A l \in 1..Len(locations) :
                  Len(LocationTypeAlerts(branchAlerts, locations[l].branches, alertType))
                    = FeedCount({ b.userId : b \in SeqSet(locations[l].branches) },
                                alertType)
             /\ SumSeq([l \in 1..Len(locations) |->
                          Len(LocationTypeAlerts(branchAlerts, locations[l].branches,
                                                 alertType))])
                  = Len(TypeAlerts(branchAlerts, alertType))

\* two locations, one of them with two branches that each have a lowStock alert,
\* the other with a lowStock alert too
C19_Witness ==
    LET locations == getUniqueLocations(branches)
    IN  /\ gen.run # "none"
        /\ Len(branches) = 3
        /\ Len(locations) = 2
        /\ Len(locations[1].branches) = 2
        /\ \A i \in 1..3 : BranchTypeCount(branchAlerts, branches[i], "lowStock") = 1
        /\ Len(LocationTypeAlerts(branchAlerts, locations[1].branches, "lowStock")) = 2
        /\ Len(TypeAlerts(branchAlerts, "lowStock")) = 3

\* C20. No state leaks between invocations: the list an invocation of the generator
\* computes is the list for its own snapshot and its own current date, however its
\* steps are interleaved with those of another invocation on another snapshot, and
\* its local array never holds an alert of the other invocation's branch.
C20_NoLeakage ==
    \A p \in 1..Len(calls) :
        /\ \A a \in SeqSet(calls[p].alerts) :
             \E i \in 1..Len(calls[p].branchData) :
                 calls[p].branchData[i].userId = a.branchId
        /\ calls[p].returned
             => calls[p].result
                  = generateBranchAlerts(calls[p].branchData, calls[p].now, clock)

\* two invocations on different snapshots and dates that took turns, both returned
\* with alerts
C20_Witness ==
    /\ Len(calls) = 2
    /\ calls[1].returned /\ calls[2].returned
    /\ calls[1].interleaved /\ calls[2].interleaved
    /\ calls[1].now # calls[2].now
    /\ Len(calls[1].result) >= 2
    /\ Len(calls[2].result) >= 2
    /\ calls[1].result[1].alertType # calls[2].result[1].alertType

\* C21. When the caller supplies daysSinceReceived, calculateAverageDailyUsage is
\* determined by the batch and that argument alone, not by the wall clock: a
\* supplied value of 0 or less yields 0, and a supplied positive value d yields
\* quantityDispensed / d.
C21_SuppliedDaysDecide ==
    (out.fn = "calculateAverageDailyUsage" /\ out.daysSinceReceived.given) =>
        LET d == out.daysSinceReceived.v
        IN  /\ d <= 0 => out.value = Int2Num(0)
            /\ d > 0 => JsEq(out.value, Rat(batch.quantityDispensed, d))
            /\ \A today \in 0..MaxClock :
                 calculateAverageDailyUsage(batch, out.daysSinceReceived, today)
                   = out.value

\* C22. Graceful degradation on an unparseable dateReceived: for a batch with
\* quantityDispensed > 0 whose dateReceived does not parse, calculateAverageDailyUsage
\* returns a finite number >= 0 and calculateReorderPoint returns a number >=
\* minimumThreshold, so the low-stock classification compares the stock with a real
\* threshold.
C22_UnparseableReceived ==
    (batch.quantityDispensed > 0 /\ ~batch.dateReceived.valid) =>
        /\ (out.fn = "calculateAverageDailyUsage" /\ out.daysSinceReceived = Undefined)
              => ~out.value.nan /\ JsGe(out.value, Int2Num(0))
        /\ out.fn = "calculateReorderPoint"
              => JsGe(out.value, Int2Num(out.config.minimumThreshold))
        /\ out.fn = "getStockStatus" => ~out.value.reorderPoint.nan

\* safetyStockPercentage in [0, 1] on top of ValidConfig
ValidPercentage(config) ==
    ValidConfig(config) /\ JsLe(config.safetyStockPercentage, Int2Num(1))

\* C26. For every batch and every valid config (non-negative leadTimeDays,
\* safetyStockPercentage in [0, 1], non-negative minimumThreshold), a non-zero
\* quantity returned by calculateReorderQuantity is at least the reorder point of
\* the batch returned by calculateReorderPoint.
C26_QuantityCoversReorderPoint ==
    ( /\ out.fn = "calculateReorderQuantity"
      /\ ValidPercentage(out.config)
      /\ ~JsEq(out.value, Int2Num(0)) )
        => JsGe(out.value, calculateReorderPoint(batch, out.config, clock))

\* C27. The staff-role local categorisation and the multi-branch generator agree on
\* every batch for the same current date: the batch is under a local expiry
\* category (expired or near expiry) exactly when the generator emits an expiry-type
\* alert for it, and under local low stock exactly when the generator emits a
\* lowStock alert for it.
C27_StaffAgreesWithGenerator ==
    out.fn = "staffAlerts" =>
        LET alerts == generateBranchAlerts(<<UnitBranch(batch)>>, out.now, clock)
        IN  /\ (out.value.expiredItems \/ out.value.nearExpiry60 \/ out.value.nearExpiry90)
                  <=> AlertsOfType(alerts, ExpiryTypes) # <<>>
            /\ out.value.lowStock <=> AlertsOfType(alerts, {"lowStock"}) # <<>>

\* C24. Every refresh cycle classifies with daysUntilExpiry measured against the
\* date at the time of that refresh: the now that the run of generateBranchAlerts
\* behind the displayed feed subtracted is of the day on which that run took place.
C24_MeasuredAgainstRefreshDate ==
    gen.run # "none" => DayOf(gen.now) = DayOf(gen.clock)

\* every invocation of fetchAllBranches has run its finally block
AllFetchesDone ==
    /\ fetches # <<>>
    /\ \A i \in 1..Len(fetches) : fetches[i].status # "pending"

\* C23. Stale results are discarded: once every in-flight fetch has completed, the
\* displayed branches and feed are those of the most recently started fetch (when
\* that fetch got an ok response); a late response of an older fetch never
\* overwrites a newer one.
C23_LatestStartedWins ==
    (AllFetchesDone /\ fetches[Len(fetches)].status = "ok") =>
        LET latest == fetches[Len(fetches)]
        IN  /\ branches = BranchDataOf(latest.data)
            /\ branchAlerts = generateBranchAlerts(BranchDataOf(latest.data), gen.now, gen.clock)

\* the step is the end of an invocation of fetchAllBranches with the given outcome
FetchEnds(outcomes) ==
    \E i \in 1..Len(fetches) :
        /\ fetches[i].status = "pending"
        /\ Len(fetches') = Len(fetches)
        /\ fetches'[i].status \in outcomes

\* the userIds of the branches held
HeldBranchIds == { branches[i].userId : i \in 1..Len(branches) }

\* C25. The branches and the feed are always replaced together, from the same
\* fetched snapshot: after every step the feed is the generator's list for the
\* branches held, and every alert's branchId is the userId of a held branch; a
\* fetch that fails leaves both exactly as they were; after any fetch finishes,
\* successfully or not, the loading flag is cleared.
C25_ReplacedTogether ==
    [][ /\ \A k \in 1..Len(branchAlerts') : branchAlerts'[k].branchId \in HeldBranchIds'
        /\ gen'.run # "none" =>
               branchAlerts' = generateBranchAlerts(branches', gen'.now, gen'.clock)
        /\ FetchEnds({"failed"}) => UNCHANGED <<branches, branchAlerts>>
        /\ FetchEnds({"ok", "failed"}) => ~isLoading' ]_vars

\* a fetch has failed after a fetch that had filled the feed
C25_Witness ==
    /\ branchAlerts # <<>>
    /\ ~isLoading
    /\ \E i, j \in 1..Len(fetches) :
          /\ fetches[i].status = "ok"
          /\ fetches[j].status = "failed"
          /\ fetches[i].finished < fetches[j].finished

\* C28. Dispensing never drives stock negative: from an inventory in which every
\* batch has stockOnHand >= 0, after any sequence of select-batch, enter-quantity,
\* dispense, confirm and cancel in the dispense view every batch still has
\* stockOnHand >= 0.
C28_StockNeverNegative ==
    \A k \in 1..Len(inventory) : StockOnHand(inventory[k]) >= 0

\* C29. The cloud copy of a user's inventory is only ever overwritten with data
\* that was loaded from the server for that user (or set up for a user who had
\* none) or that results from the user's own add, dispense and delete operations
\* on it: a failed, empty or malformed fetch, a sign-out or a logout never causes
\* placeholder data or an empty inventory to be uploaded over the stored inventory.
C29_CloudOnlyFromUserData ==
    [][(cloud.stored /\ cloud' # cloud) => origin' \in {"server", "new"}]_vars

\* C30. Approval gate: until an Administrator approves an account registered as
\* Pharmacy Staff, no request made with that account's credentials succeeds in
\* reading or writing inventory on the server: every inventory request that the
\* server answers with 200 for a Pharmacy Staff caller is of an approved account.
C30_ApprovalGate ==
    (/\ response.route \in {"GET /inventory", "POST /inventory"}
     /\ response.status = 200
     /\ response.role = "Pharmacy Staff")
        => response.approved

====
